---- MODULE Spec2Model ----
(***************************************************************************)
(* A model of the Kythe C++ graph observer                                 *)
(* (kythe/cxx/indexer/cxx/KytheGraphObserver.cc): the file-state stack,    *)
(* the claim cache, the dedup sets, the location/range resolver and the    *)
(* facts handed to the recorder.                                           *)
(***************************************************************************)
EXTENDS Integers, Sequences, FiniteSets, TLC

VARIABLES
  file_stack_,        \* Seq of FileState
  deferred_anchors_,  \* set of Range (anchor dedup, per compilation unit)
  range_edges_,       \* set of RangeEdge (redundant-wraith dropping)
  written_namespaces_,\* set of claimed strings
  written_types_,     \* set of claimed strings
  written_docs_,      \* set of claimed strings
  recorded_files_,    \* set of file entries whose content was emitted
  claim_checked_files_,          \* map FileID -> token (a function)
  claimed_file_specific_tokens_, \* map FileID -> token (a function)
  transitively_reached_through_header_, \* set of unique ids
  main_source_file_,  \* [set, loc, fid]: main_source_file_loc_ and the map entry
                      \* main_source_file_token_ points to
  builtins_,          \* map spelling -> Builtin (a function)
  meta_,              \* multimap FileID -> MetadataFile, a Seq of [fid, rules]
  deferring_nodes_,   \* BOOLEAN
  drop_redundant_wraiths_, \* BOOLEAN
  starting_context_,  \* the preprocessor context of the main file
  FLAGS_fail_on_unimplemented_builtin, \* BOOLEAN, a command-line flag
  fatal,              \* TRUE once a CHECK / LOG(FATAL) stopped the run
  trace               \* the calls made so far, in order: for each its name,
                      \* arguments and result, the facts it passed to the
                      \* recorder, the diagnostics it wrote, the requests it
                      \* sent to the claim service, and the mode it ran in

vars == <<file_stack_, deferred_anchors_, range_edges_, written_namespaces_,
          written_types_, written_docs_, recorded_files_, claim_checked_files_,
          claimed_file_specific_tokens_, transitively_reached_through_header_,
          main_source_file_, builtins_, meta_, deferring_nodes_,
          drop_redundant_wraiths_, starting_context_,
          FLAGS_fail_on_unimplemented_builtin, fatal, trace>>

-----------------------------------------------------------------------------
(* Bounds of the model. *)
MaxCalls == 3
MaxUnitCalls == 5
MaxDepth == 2

-----------------------------------------------------------------------------
(* Strings and sequences. *)

RECURSIVE JoinWith(_, _)
JoinWith(strs, sep) ==
  IF strs = <<>> THEN ""
  ELSE IF Len(strs) = 1 THEN strs[1]
  ELSE strs[1] \o sep \o JoinWith(Tail(strs), sep)

RECURSIVE Flatten(_)
Flatten(seqs) ==
  IF seqs = <<>> THEN <<>> ELSE Head(seqs) \o Flatten(Tail(seqs))

(* How many elements of seq satisfy Test. *)
Count(seq, Test(_)) == Cardinality({i \in 1..Len(seq) : Test(seq[i])})

-----------------------------------------------------------------------------
(* The record of a call, appended to the trace by every operation: what    *)
(* was called, what it returned and passed to the recorder, and the mode   *)
(* and dedup sets it found.                                                *)

Called(op, args, ret, facts, diagnostics, claim_requests) ==
  trace' = Append(trace,
                  [op |-> op, args |-> args, ret |-> ret, out |-> facts,
                   log |-> diagnostics, claims |-> claim_requests,
                   deferring |-> deferring_nodes_,
                   depth |-> Len(file_stack_),
                   edges |-> range_edges_, anchors |-> deferred_anchors_])

(* All facts passed to the recorder so far, in order. *)
Recorded == Flatten([i \in 1..Len(trace) |-> trace[i].out])

-----------------------------------------------------------------------------
(* VNames, claim tokens and node ids. *)

kIndexerLang == "c++"

VName(sig, corpus, root, path, lang) ==
  [signature |-> sig, corpus |-> corpus, root |-> root, path |-> path,
   language |-> lang]

EmptyVName == VName("", "", "", "", "")

KytheClaimToken(vname, claimed, langindep) ==
  [vname |-> vname, rough_claimed |-> claimed, language_independent |-> langindep]

default_token_ == KytheClaimToken(EmptyVName, TRUE, FALSE)
type_token_ == KytheClaimToken(EmptyVName, TRUE, FALSE)

NodeId(token, identity) == [token |-> token, identity |-> identity]

StampIdentity(token, identity) ==
  identity
    \o (IF token.vname.corpus # "" THEN "#" \o token.vname.corpus ELSE "")
    \o (IF token.vname.root # "" THEN "#" \o token.vname.root ELSE "")
    \o (IF token.vname.path # "" THEN "#" \o token.vname.path ELSE "")

ToClaimedString(node) == StampIdentity(node.token, node.identity)

claimNode(node) == node.token.rough_claimed

VNameRefFromNodeId(node) ==
  VName(node.identity, node.token.vname.corpus, node.token.vname.root,
        node.token.vname.path,
        IF node.token.language_independent THEN "" ELSE kIndexerLang)

MaxSigLen == 24

CompressString(s, force) ==
  IF force \/ Len(s) > MaxSigLen THEN "#H(" \o s \o ")" ELSE s

-----------------------------------------------------------------------------
(* The compiler's source manager and the virtual file system, as the       *)
(* observer reads them: a fixed translation unit.                          *)
(*   main.cc (FileID 1) includes a.h twice (FileIDs 2 and 3) and b.inc     *)
(*   (FileID 4); FileID 5 is a builtin buffer with no file entry; FileIDs  *)
(*   6..10 are macro expansions.                                           *)

NoEntry == "<none>"
InvalidFileID == 0

getFileEntryForID(fid) ==
  CASE fid = 1 -> "main.cc"
    [] fid = 2 -> "a.h"
    [] fid = 3 -> "a.h"
    [] fid = 4 -> "b.inc"
    [] OTHER -> NoEntry

getUniqueID(entry) == entry

FileLoc(fid, off) ==
  [valid |-> TRUE, macro |-> FALSE, fid |-> fid, offset |-> off,
   exp |-> "", spell |-> ""]
MacroLoc(fid, exp, spell) ==
  [valid |-> TRUE, macro |-> TRUE, fid |-> fid, offset |-> 0,
   exp |-> exp, spell |-> spell]

(* The bytes of the one string literal of main.cc that holds a text proto: *)
(* byte b of the literal is at offset LiteralBegin + b of main.cc.         *)
LiteralBegin == 20
LiteralByteLocs ==
  <<"q0", "q1", "q2", "q3", "q4", "q5", "q6", "q7", "q8", "q9", "q10", "q11",
    "q12", "q13">>
LiteralLocs == {LiteralByteLocs[b] : b \in 1..Len(LiteralByteLocs)}
ByteOfLoc(l) == (CHOOSE b \in 1..Len(LiteralByteLocs) : LiteralByteLocs[b] = l) - 1

(* A location is named by a string; LocTable gives what the source manager *)
(* knows about it.  a.h defines A as "B B" (the two B at a.h:1 and a.h:2)  *)
(* and B as one token at a.h:3.  main.cc expands A at offset 3 and B at    *)
(* offset 7.  z0 is a valid location that lies in no file.  S1 is a token  *)
(* expanded in main.cc and spelled in the builtin buffer, B1 one expanded  *)
(* in the buffer and spelled in a.h, B2 one expanded and spelled in the    *)
(* buffer.  E1 and E2 are the two B of A's expansion, X1 and X2 the        *)
(* token of B expanded from E1 and from E2, X3 the token of B expanded at  *)
(* main.cc:7.                                                              *)
LocTable(l) ==
  CASE l = "m3"  -> FileLoc(1, 3)
    [] l \in LiteralLocs -> FileLoc(1, LiteralBegin + ByteOfLoc(l))
    [] l = "m7"  -> FileLoc(1, 7)
    [] l = "h3"  -> FileLoc(2, 3)
    [] l = "g3"  -> FileLoc(3, 3)
    [] l = "i1"  -> FileLoc(4, 1)
    [] l = "bi"  -> FileLoc(5, 0)
    [] l = "h1"  -> FileLoc(2, 1)
    [] l = "z0"  -> FileLoc(InvalidFileID, 0)
    [] l = "h2"  -> FileLoc(2, 2)
    [] l = "E1"  -> MacroLoc(9, "m3", "h1")
    [] l = "E2"  -> MacroLoc(10, "m3", "h2")
    [] l = "X1"  -> MacroLoc(6, "E1", "h3")
    [] l = "X2"  -> MacroLoc(7, "E2", "h3")
    [] l = "X3"  -> MacroLoc(8, "m7", "h3")
    [] l = "S1"  -> MacroLoc(11, "m7", "bi")
    [] l = "B1"  -> MacroLoc(12, "bi", "h3")
    [] l = "B2"  -> MacroLoc(13, "bi", "bi")
    [] OTHER     -> [valid |-> FALSE, macro |-> FALSE, fid |-> InvalidFileID,
                     offset |-> 0, exp |-> "", spell |-> ""]

InvalidLoc == "inv"
Locs == {"inv", "m3", "m7", "h1", "h2", "h3", "g3", "i1", "bi",
         "E1", "E2", "X1", "X2", "X3"}

isValid(l) == LocTable(l).valid
isMacroID(l) == LocTable(l).macro
isFileID(l) == ~LocTable(l).macro
getFileID(l) == LocTable(l).fid
getFileOffset(l) == LocTable(l).offset

RECURSIVE getExpansionLoc(_)
getExpansionLoc(l) == IF isFileID(l) THEN l ELSE getExpansionLoc(LocTable(l).exp)

RECURSIVE getSpellingLoc(_)
getSpellingLoc(l) == IF isFileID(l) THEN l ELSE getSpellingLoc(LocTable(l).spell)

(* The text of the token at a location of a buffer without a file entry,  *)
(* and whether the buffer could not be read.                               *)
getCharacterData(l) == [was_invalid |-> FALSE, token |-> "__LINE__"]

HashToString(text) == "#h[" \o text \o "]"

(* vfs_->get_vname, else the path relative to the working directory under *)
(* the claimant's corpus.                                                  *)
claimant_corpus == "k"

VNameFromFileEntry(entry) == VName("", claimant_corpus, "", entry, "")

-----------------------------------------------------------------------------
(* The location and range resolver. *)

(* Range kinds.  A Physical range carries the claim token of its file as   *)
(* its context; a Wraith range its instantiation context; an Implicit one  *)
(* the node it stands for.                                                 *)
Range(kind, begin, end, context) ==
  [Kind |-> kind, Begin |-> begin, End |-> end, Context |-> context]

AppendFileBufferSliceHashToStream(loc) ==
  IF getCharacterData(loc).was_invalid
  THEN "!invalid[" \o ToString(getFileOffset(loc)) \o "]"
  ELSE HashToString(getCharacterData(loc).token)

(* Variant of PostedIndex that answers with the file id posted last. *)
PostedIndex_Last(posted, fid) ==
  IF \E i \in 1..Len(posted) : posted[i] = fid THEN Len(posted) - 1 ELSE -1

(* Index (from 0) of fid in posted, or -1. *)
PostedIndex(posted, fid) ==
  IF \E i \in 1..Len(posted) : posted[i] = fid
  THEN (CHOOSE i \in 1..Len(posted) :
          posted[i] = fid /\ \A j \in 1..(i - 1) : posted[j] # fid) - 1
  ELSE -1

(* Variant of ExpansionLocIfMacro that resolves a macro id to the place    *)
(* it is spelled at.                                                       *)
ExpansionLocIfMacro_Spelling(loc) ==
  IF isMacroID(loc) THEN getSpellingLoc(loc) ELSE loc

(* if (loc.isMacroID()) loc = SourceManager->getExpansionLoc(loc); *)
ExpansionLocIfMacro(loc) == IF isMacroID(loc) THEN getExpansionLoc(loc) ELSE loc

(* A stream position is [posted, str]: the file ids posted so far and the  *)
(* text written.  Write appends text, Post a file id.                      *)
Write(stream, text) == [stream EXCEPT !.str = @ \o text]
Post(stream, file_id) == [stream EXCEPT !.posted = Append(@, file_id)]

(* The corpus, root and path of a file's VName as the stream shows them. *)
FileVNameText(file_vname) ==
  (IF file_vname.corpus # "" THEN file_vname.corpus \o "/" ELSE "")
  \o (IF file_vname.root # "" THEN file_vname.root \o "/" ELSE "")
  \o file_vname.path

(* The file-location branch of AppendFullLocationToStream. *)
AppendFileLocationToStream(stream, loc, file_id, file_entry, old_id) ==
  IF old_id >= 0
  THEN Write(stream,
             (IF file_entry # NoEntry THEN ToString(getFileOffset(loc))
              ELSE AppendFileBufferSliceHashToStream(loc))
             \o "@." \o ToString(old_id))
  ELSE Write(Post(stream, file_id),
             (IF file_entry # NoEntry THEN ToString(getFileOffset(loc))
              ELSE AppendFileBufferSliceHashToStream(loc))
             \o (IF file_entry # NoEntry
                 THEN FileVNameText(VNameFromFileEntry(file_entry)) ELSE ""))

RECURSIVE AppendFullLocationToStream(_, _)
AppendFullLocationToStream(stream, loc) ==
  IF ~isValid(loc) THEN Write(stream, "invalid")
  ELSE IF isFileID(loc)
  THEN AppendFileLocationToStream(stream, loc, getFileID(loc),
                                  getFileEntryForID(getFileID(loc)),
                                  PostedIndex(stream.posted, getFileID(loc)))
  ELSE AppendFullLocationToStream(
         Write(AppendFullLocationToStream(stream, getExpansionLoc(loc)), "@"),
         getSpellingLoc(loc))

EmptyStream == [posted |-> <<>>, str |-> ""]

(* The end of a range and its context, after its beginning was written. *)
AppendRangeEndToStream(stream, range) ==
  Write(IF range.End # range.Begin
        THEN AppendFullLocationToStream(stream, range.End) ELSE stream,
        IF range.Kind = "Wraith" THEN ToClaimedString(range.Context) ELSE "")

AppendRangeToStream(range) ==
  AppendRangeEndToStream(AppendFullLocationToStream(EmptyStream, range.Begin),
                         range).str

RECURSIVE SearchForFileEntry(_)

(* if (out) return out; else what the rest of the search finds. *)
OrElse(out, rest) == IF out # NoEntry THEN out ELSE rest

(* The search through the expansion or the spelling location of loc. *)
SearchThrough(loc, through) ==
  IF isValid(through) /\ through # loc THEN SearchForFileEntry(through) ELSE NoEntry

SearchForFileEntry(loc) ==
  OrElse(IF isFileID(loc) /\ isValid(loc)
         THEN getFileEntryForID(getFileID(loc)) ELSE NoEntry,
         OrElse(SearchThrough(loc, getExpansionLoc(loc)),
                SearchThrough(loc, getSpellingLoc(loc))))

(* Variant of VNameFromRangeFails without the check. *)
VNameFromRangeFails_Never(range) == FALSE

(* CHECK(begin.isValid()) of VNameFromRange. *)
VNameFromRangeFails(range) == range.Kind # "Implicit" /\ ~isValid(range.Begin)

(* Variant of RangeBaseVName that names the range after the file being     *)
(* processed.                                                              *)
RangeBaseVName_TopOfStack(range, file_entry) ==
  IF file_stack_ # <<>> THEN file_stack_[Len(file_stack_)].vname
  ELSE EmptyVName

(* The name a located range starts from: its file's, else its context's. *)
RangeBaseVName(range, file_entry) ==
  IF file_entry # NoEntry THEN VNameFromFileEntry(file_entry)
  ELSE IF range.Kind = "Wraith" THEN VNameRefFromNodeId(range.Context)
  ELSE EmptyVName

(* Variant of LocatedRangeVName that leaves the context of a Wraith range  *)
(* out of the signature.                                                   *)
LocatedRangeVName_NoContext(range, begin, end) ==
  [RangeBaseVName(range, SearchForFileEntry(begin)) EXCEPT !.signature =
     @ \o "@" \o ToString(getFileOffset(begin)) \o ":"
       \o ToString(getFileOffset(end))]

(* The name of a Physical or Wraith range whose ends were resolved to      *)
(* begin and end.                                                          *)
LocatedRangeVName(range, begin, end) ==
  [RangeBaseVName(range, SearchForFileEntry(begin)) EXCEPT !.signature =
     @ \o "@" \o ToString(getFileOffset(begin)) \o ":"
       \o ToString(getFileOffset(end))
       \o (IF range.Kind = "Wraith"
           THEN "@" \o ToClaimedString(range.Context) ELSE "")]

(* Variant of VNameFromRange that signs a located range with the string   *)
(* AppendRangeToStream makes of it.                                        *)
VNameFromRange_StreamText(range) ==
  [(IF range.Kind = "Implicit"
    THEN [VNameRefFromNodeId(range.Context) EXCEPT !.signature = @ \o "@syntactic"]
    ELSE [RangeBaseVName(range, SearchForFileEntry(ExpansionLocIfMacro(range.Begin)))
          EXCEPT !.signature = AppendRangeToStream(range)])
   EXCEPT !.language = kIndexerLang,
          !.signature = CompressString(@, FALSE)]

VNameFromRange(range) ==
  [(IF range.Kind = "Implicit"
    THEN [VNameRefFromNodeId(range.Context) EXCEPT !.signature = @ \o "@syntactic"]
    ELSE LocatedRangeVName(range, ExpansionLocIfMacro(range.Begin),
                           ExpansionLocIfMacro(IF ~isValid(range.End)
                                               THEN range.Begin ELSE range.End)))
   EXCEPT !.language = kIndexerLang,
          !.signature = CompressString(@, FALSE)]

-----------------------------------------------------------------------------
(* Claims of locations and ranges. *)

(* Variant of claimFile that takes a file without a cached answer for     *)
(* claimed.                                                                *)
claimFile_UnknownClaimed(file) ==
  IF file = InvalidFileID THEN TRUE
  ELSE IF file \in DOMAIN claim_checked_files_
       THEN claim_checked_files_[file].rough_claimed
       ELSE TRUE

(* The answer cached for a file, FALSE when none is. *)
claimFile(file) ==
  IF file = InvalidFileID THEN TRUE
  ELSE IF file \in DOMAIN claim_checked_files_
       THEN claim_checked_files_[file].rough_claimed
       ELSE FALSE

claimLocation(source_location) ==
  IF ~isValid(source_location) THEN TRUE
  ELSE claimFile(getFileID(ExpansionLocIfMacro(source_location)))

claimRange(range) ==
  (range.Kind = "Wraith" /\ claimNode(range.Context)) \/ claimLocation(range.Begin)

-----------------------------------------------------------------------------
(* Facts passed to the recorder. *)

NoOrdinal == -1

AddProperty(vname, property, value) ==
  [f |-> "property", src |-> vname, kind |-> property, value |-> value,
   dst |-> EmptyVName, ordinal |-> NoOrdinal]

AddNodeKind(vname, node_kind) == AddProperty(vname, "/kythe/node/kind", node_kind)

AddEdge(from, edge_kind, to, ordinal) ==
  [f |-> "edge", src |-> from, kind |-> edge_kind, value |-> "",
   dst |-> to, ordinal |-> ordinal]

AddFileContent(vname, content) ==
  [f |-> "file", src |-> vname, kind |-> "/kythe/text", value |-> content,
   dst |-> EmptyVName, ordinal |-> NoOrdinal]

AddMarkedSource(vname, marked_source) ==
  IF marked_source = "" THEN <<>>
  ELSE << [f |-> "code", src |-> vname, kind |-> "/kythe/code",
           value |-> marked_source, dst |-> EmptyVName, ordinal |-> NoOrdinal] >>

-----------------------------------------------------------------------------
(* Anchors. *)

RecordSourceLocation(vname, source_location, offset_id) ==
  AddProperty(vname, offset_id,
              ToString(getFileOffset(ExpansionLocIfMacro(source_location))))

(* Variant of RangeFacts that writes the offsets of every range. *)
RangeFacts_Offsets(anchor_name, range) ==
  << AddNodeKind(anchor_name, "anchor") >>
  \o (IF range.Kind = "Implicit"
      THEN << AddProperty(anchor_name, "/kythe/subkind", "implicit") >> ELSE <<>>)
  \o << RecordSourceLocation(anchor_name, range.Begin, "/kythe/loc/start"),
        RecordSourceLocation(anchor_name, range.End, "/kythe/loc/end") >>
  \o (IF range.Kind = "Wraith"
      THEN << AddEdge(anchor_name, "childof/context",
                      VNameRefFromNodeId(range.Context), NoOrdinal) >>
      ELSE <<>>)

(* The facts RecordRange emits when it does emit. *)
RangeFacts(anchor_name, range) ==
  << AddNodeKind(anchor_name, "anchor") >>
  \o (IF range.Kind = "Implicit"
      THEN << AddProperty(anchor_name, "/kythe/subkind", "implicit") >>
      ELSE << RecordSourceLocation(anchor_name, range.Begin, "/kythe/loc/start"),
              RecordSourceLocation(anchor_name, range.End, "/kythe/loc/end") >>)
  \o (IF range.Kind = "Wraith"
      THEN << AddEdge(anchor_name, "childof/context",
                      VNameRefFromNodeId(range.Context), NoOrdinal) >>
      ELSE <<>>)

(* Variant of RecordRange that does not note the range it has written. *)
RecordRange_NoInsert(st, anchor_name, range) ==
  IF ~deferring_nodes_ \/ range \notin st.anchors
  THEN [st EXCEPT !.out = @ \o RangeFacts(anchor_name, range)]
  ELSE st

(* st is the part of the observer an anchor recording writes:              *)
(* [anchors, edges, out, log, fatal].                                      *)
RecordRange(st, anchor_name, range) ==
  IF ~deferring_nodes_ \/ range \notin st.anchors
  THEN [st EXCEPT !.anchors = IF deferring_nodes_ THEN @ \cup {range} ELSE @,
                  !.out = @ \o RangeFacts(anchor_name, range)]
  ELSE st

KnownEdgeKinds == {"generates", "childof", "ref"}
of_spelling(spelling) == spelling \in KnownEdgeKinds

Rule(begin, end, edge_in, edge_out, vname, reverse_edge) ==
  [key |-> begin, begin |-> begin, end |-> end, edge_in |-> edge_in,
   edge_out |-> edge_out, vname |-> vname, reverse_edge |-> reverse_edge]

(* Variant of MetaHookRule that ignores the reverse flag. *)
MetaHookRule_NoReverse(st, rule, range_begin, range_end, def) ==
  IF rule.key = range_begin /\ rule.begin = range_begin /\ rule.end = range_end
     /\ (rule.edge_in = "/kythe/edge/defines"
         \/ rule.edge_in = "/kythe/edge/defines/binding")
  THEN IF of_spelling(rule.edge_out)
       THEN [st EXCEPT !.out =
               Append(@, AddEdge(def, rule.edge_out, rule.vname, NoOrdinal))]
       ELSE [st EXCEPT !.log =
               Append(@, "Unknown edge kind " \o rule.edge_out \o " from metadata")]
  ELSE st

(* Variant of MetaHookRule that stops the run at an unknown edge kind. *)
MetaHookRule_FatalUnknown(st, rule, range_begin, range_end, def) ==
  IF st.fatal THEN st
  ELSE IF rule.key = range_begin /\ rule.begin = range_begin /\ rule.end = range_end
          /\ (rule.edge_in = "/kythe/edge/defines"
              \/ rule.edge_in = "/kythe/edge/defines/binding")
  THEN IF of_spelling(rule.edge_out)
       THEN [st EXCEPT !.out =
               Append(@, IF rule.reverse_edge
                         THEN AddEdge(rule.vname, rule.edge_out, def, NoOrdinal)
                         ELSE AddEdge(def, rule.edge_out, rule.vname, NoOrdinal))]
       ELSE [st EXCEPT !.fatal = TRUE]
  ELSE st

(* The body of MetaHookDefines' loop, for one rule under the range's key. *)
MetaHookRule(st, rule, range_begin, range_end, def) ==
  IF rule.key = range_begin /\ rule.begin = range_begin /\ rule.end = range_end
     /\ (rule.edge_in = "/kythe/edge/defines"
         \/ rule.edge_in = "/kythe/edge/defines/binding")
  THEN IF of_spelling(rule.edge_out)
       THEN [st EXCEPT !.out =
               Append(@, IF rule.reverse_edge
                         THEN AddEdge(rule.vname, rule.edge_out, def, NoOrdinal)
                         ELSE AddEdge(def, rule.edge_out, rule.vname, NoOrdinal))]
       ELSE [st EXCEPT !.log =
               Append(@, "Unknown edge kind " \o rule.edge_out \o " from metadata")]
  ELSE st

RECURSIVE MetaHookDefines(_, _, _, _, _)
MetaHookDefines(st, rules, range_begin, range_end, def) ==
  IF rules = <<>> THEN st
  ELSE MetaHookDefines(MetaHookRule(st, Head(rules), range_begin, range_end, def),
                       Tail(rules), range_begin, range_end, def)

RECURSIVE MetaHookAll(_, _, _, _, _)
MetaHookAll(st, metas, range_begin, range_end, def) ==
  IF metas = <<>> THEN st
  ELSE MetaHookAll(MetaHookDefines(st, Head(metas).rules, range_begin, range_end, def),
                   Tail(metas), range_begin, range_end, def)

(* Variant of RangeEdge that tells ranges with different contexts apart. *)
RangeEdge_WithContext(range, edge_kind, target) ==
  [Begin |-> range.Begin, End |-> range.End, EdgeKind |-> edge_kind,
   PrimaryAnchoredTo |-> target, Context |-> range.Context]

RangeEdge(range, edge_kind, target) ==
  [Begin |-> range.Begin, End |-> range.End, EdgeKind |-> edge_kind,
   PrimaryAnchoredTo |-> target]

(* range_edges_.insert of RecordAnchor, done only when redundant anchors   *)
(* are dropped.                                                            *)
InsertRangeEdge(st, range_edge) ==
  IF drop_redundant_wraiths_ THEN [st EXCEPT !.edges = @ \cup {range_edge}] ELSE st

(* if (claimed) { RecordRange(anchor_name, source_range); } *)
RecordRangeIf(claimed, st, anchor_name, source_range) ==
  IF claimed THEN RecordRange(st, anchor_name, source_range) ELSE st

(* if (cl == Claimability::Unclaimable) { recorder_->AddEdge(...); } *)
AddEdgeIf(unclaimable, st, edge) ==
  IF unclaimable THEN [st EXCEPT !.out = Append(@, edge)] ELSE st

(* The metadata hook of RecordAnchor, run after the anchor's edge. *)
MetaHooksIf(unclaimable, st, source_range, anchor_edge_kind, metas, def) ==
  IF unclaimable /\ source_range.Kind = "Physical"
     /\ anchor_edge_kind = "defines/binding" /\ metas # <<>>
  THEN MetaHookAll(st, metas,
                   getFileOffset(ExpansionLocIfMacro(source_range.Begin)),
                   getFileOffset(ExpansionLocIfMacro(source_range.End)), def)
  ELSE st

(* Variant of RecordNamedAnchor that passes the edge on only for a claimed *)
(* anchor.                                                                 *)
RecordNamedAnchor_ClaimedOnly(st, source_range, anchor_name, claimed, unclaimable, anchor_edge_kind, target) ==
  MetaHooksIf(claimed,
              AddEdgeIf(claimed,
                        RecordRangeIf(claimed, st, anchor_name, source_range),
                        AddEdge(anchor_name, anchor_edge_kind, target, NoOrdinal)),
              source_range, anchor_edge_kind,
              SelectSeq(meta_, LAMBDA m : m.fid = getFileID(source_range.Begin)),
              target)

(* RecordAnchor from the point where the anchor's name and the claim are   *)
(* known: cl is Unclaimable by then iff claimed or it was passed so.       *)
RecordNamedAnchor(st, source_range, anchor_name, claimed, unclaimable, anchor_edge_kind, target) ==
  MetaHooksIf(unclaimable,
              AddEdgeIf(unclaimable,
                        RecordRangeIf(claimed, st, anchor_name, source_range),
                        AddEdge(anchor_name, anchor_edge_kind, target, NoOrdinal)),
              source_range, anchor_edge_kind,
              SelectSeq(meta_, LAMBDA m : m.fid = getFileID(source_range.Begin)),
              target)

(* Variant of AnchorClaimed that ignores the claim of the target node. *)
AnchorClaimed_RangeOnly(source_range, primary_anchored_to) ==
  claimRange(source_range)

(* Whether RecordAnchor takes the anchor as claimed. *)
AnchorClaimed(source_range, primary_anchored_to) ==
  claimRange(source_range) \/ claimNode(primary_anchored_to)

(* Variant of RecordAnchor that notes the range's edge before it looks at  *)
(* the stack.                                                              *)
RecordAnchor_InsertFirst(st, source_range, primary_anchored_to, anchor_edge_kind, cl) ==
  IF st.fatal THEN st
  ELSE IF file_stack_ = <<>>
  THEN [InsertRangeEdge(st, RangeEdge(source_range, anchor_edge_kind,
                                      primary_anchored_to))
        EXCEPT !.fatal = TRUE]
  ELSE IF drop_redundant_wraiths_
          /\ RangeEdge(source_range, anchor_edge_kind, primary_anchored_to) \in st.edges
  THEN st
  ELSE IF VNameFromRangeFails(source_range)
  THEN [InsertRangeEdge(st, RangeEdge(source_range, anchor_edge_kind,
                                      primary_anchored_to))
        EXCEPT !.fatal = TRUE]
  ELSE RecordNamedAnchor(
         InsertRangeEdge(st, RangeEdge(source_range, anchor_edge_kind,
                                       primary_anchored_to)),
         source_range, VNameFromRange(source_range),
         AnchorClaimed(source_range, primary_anchored_to),
         AnchorClaimed(source_range, primary_anchored_to) \/ cl = "Unclaimable",
         anchor_edge_kind, VNameRefFromNodeId(primary_anchored_to))

(* RecordAnchor(Range, NodeId, EdgeKindID, Claimability). *)
RecordAnchor(st, source_range, primary_anchored_to, anchor_edge_kind, cl) ==
  IF st.fatal THEN st
  ELSE IF file_stack_ = <<>> THEN [st EXCEPT !.fatal = TRUE]
  ELSE IF drop_redundant_wraiths_
          /\ RangeEdge(source_range, anchor_edge_kind, primary_anchored_to) \in st.edges
  THEN st
  ELSE IF VNameFromRangeFails(source_range)
  THEN [InsertRangeEdge(st, RangeEdge(source_range, anchor_edge_kind,
                                      primary_anchored_to))
        EXCEPT !.fatal = TRUE]
  ELSE RecordNamedAnchor(
         InsertRangeEdge(st, RangeEdge(source_range, anchor_edge_kind,
                                       primary_anchored_to)),
         source_range, VNameFromRange(source_range),
         AnchorClaimed(source_range, primary_anchored_to),
         AnchorClaimed(source_range, primary_anchored_to) \/ cl = "Unclaimable",
         anchor_edge_kind, VNameRefFromNodeId(primary_anchored_to))

(* RecordAnchor(Range, VName, EdgeKindID, Claimability). *)
RecordAnchorVName(st, source_range, primary_anchored_to, anchor_edge_kind, cl) ==
  IF st.fatal THEN st
  ELSE IF file_stack_ = <<>> THEN [st EXCEPT !.fatal = TRUE]
  ELSE IF VNameFromRangeFails(source_range) THEN [st EXCEPT !.fatal = TRUE]
  ELSE AddEdgeIf(claimRange(source_range) \/ cl = "Unclaimable",
                 RecordRangeIf(claimRange(source_range), st,
                               VNameFromRange(source_range), source_range),
                 AddEdge(VNameFromRange(source_range), anchor_edge_kind,
                         primary_anchored_to, NoOrdinal))

-----------------------------------------------------------------------------
(* The file-state stack. *)

FileState(vname, base_vname, uid, context, claimed) ==
  [vname |-> vname, base_vname |-> base_vname, uid |-> uid,
   context |-> context, claimed |-> claimed]

NoUid == ""

(* path_to_context_data_: unique id -> context -> offset -> context, as    *)
(* AddContextInformation filled it before the traversal.                   *)
path_to_context_data_ ==
  { <<"main.cc", "c0", 3, "cA">>, <<"main.cc", "c0", 7, "cB">>,
    <<"a.h", "cA", 1, "cC">> }

HasPath(uid) == \E e \in path_to_context_data_ : e[1] = uid
HasContext(uid, ctx) == \E e \in path_to_context_data_ : e[1] = uid /\ e[2] = ctx
HasOffset(uid, ctx, off) ==
  \E e \in path_to_context_data_ : e[1] = uid /\ e[2] = ctx /\ e[3] = off
DestContext(uid, ctx, off) ==
  (CHOOSE e \in path_to_context_data_ : e[1] = uid /\ e[2] = ctx /\ e[3] = off)[4]

(* SourceManager->getMemoryBufferForFile(entry): the text, or unreadable.  *)
BufferUnreadable(entry) == entry = "b.inc"
getBuffer(entry) == "text of " \o entry

EndsWithInc(entry) == entry = "b.inc"

(* The context pushFile resolves for a nested file with an entry, and the  *)
(* warning it writes when a lookup level misses.                           *)
ResolveContext(size, has_previous_uid, previous_uid, previous_context, blame_location) ==
  IF size = 1 THEN [context |-> starting_context_, warn |-> <<>>]
  ELSE IF has_previous_uid /\ previous_context # "" /\ isValid(blame_location)
          /\ isFileID(blame_location)
  THEN LET offset == getFileOffset(blame_location)
       IN IF HasPath(previous_uid)
          THEN IF HasContext(previous_uid, previous_context)
               THEN IF HasOffset(previous_uid, previous_context, offset)
                    THEN [context |-> DestContext(previous_uid, previous_context, offset),
                          warn |-> <<>>]
                    ELSE [context |-> "", warn |-> <<"missing source offset">>]
               ELSE [context |-> "", warn |-> <<"missing source context">>]
          ELSE [context |-> "", warn |-> <<"missing source path">>]
  ELSE [context |-> "", warn |-> <<>>]

(* Variant of Emplace that stores the value over the entry that is there. *)
Emplace_Overwrite(map, key, value) ==
  [k \in DOMAIN map \cup {key} |-> IF k = key THEN value ELSE map[k]]

(* std::map::emplace: keeps the entry of a key that is already there. *)
Emplace(map, key, value) ==
  IF key \in DOMAIN map THEN map
  ELSE [k \in DOMAIN map \cup {key} |-> IF k = key THEN value ELSE map[k]]

(* Variant of ContextVName without the context prefix. *)
ContextVName_NoPrefix(base_vname, context) == base_vname

(* state.vname.set_signature(state.context + state.vname.signature()) *)
ContextVName(base_vname, context) ==
  [base_vname EXCEPT !.signature = context \o @]

NoMain == [set |-> FALSE, loc |-> InvalidLoc, fid |-> InvalidFileID]

(* Variant of MainSourceFileAfter that keeps the first file it was given. *)
MainSourceFileAfter_FirstOnly(has_previous_uid, loc, file) ==
  IF ~has_previous_uid /\ ~main_source_file_.set
  THEN [set |-> TRUE, loc |-> loc, fid |-> file]
  ELSE main_source_file_

(* if (!has_previous_uid) { main_source_file_loc_ = source_location;       *)
(*   main_source_file_token_ = &claim_checked_files_[file]; }              *)
MainSourceFileAfter(has_previous_uid, loc, file) ==
  IF ~has_previous_uid
  THEN [set |-> TRUE, loc |-> loc, fid |-> file]
  ELSE main_source_file_

(* Variant of UnresolvedFileState that is not claimed. *)
UnresolvedFileState_Unclaimed == FileState(EmptyVName, EmptyVName, NoUid, "", FALSE)

(* file_stack_.push_back(FileState{}); state.claimed = true; with nothing  *)
(* more assigned when no file entity is found.                             *)
UnresolvedFileState == FileState(EmptyVName, EmptyVName, NoUid, "", TRUE)

(* Variant of FileIsRecorded that forgets the files already recorded. *)
FileIsRecorded_Never(entry) == FALSE

(* !recorded_files_.insert(entry).second *)
FileIsRecorded(entry) == entry \in recorded_files_

(* pushFile(blame_location, source_location); claim_answer is what the     *)
(* claim service answers if it is asked.                                   *)
pushFile(blame_location, source_location, claim_answer) ==
  LET previous_context ==
        IF file_stack_ = <<>> THEN starting_context_
        ELSE file_stack_[Len(file_stack_)].context
      has_previous_uid == file_stack_ # <<>>
      previous_uid == IF has_previous_uid THEN file_stack_[Len(file_stack_)].uid
                      ELSE NoUid
      in_header == has_previous_uid
                   /\ previous_uid \in transitively_reached_through_header_
      loc == ExpansionLocIfMacro(source_location)
      file == getFileID(loc)
      entry == getFileEntryForID(file)
      resolved == isValid(source_location) /\ file # InvalidFileID /\ entry # NoEntry
      base_vname == VNameFromFileEntry(entry)
      uid == getUniqueID(entry)
      ctx == ResolveContext(Len(file_stack_) + 1, has_previous_uid, previous_uid,
                            previous_context, blame_location)
      vname == ContextVName(base_vname, ctx.context)
      state == IF resolved
               THEN FileState(vname, base_vname, uid, ctx.context, claim_answer)
               ELSE UnresolvedFileState
      token == KytheClaimToken(vname, claim_answer, FALSE)
      file_token == KytheClaimToken(vname, claim_answer, TRUE)
      emit == claim_answer /\ ~FileIsRecorded(entry) /\ ~BufferUnreadable(entry)
  IN /\ ~fatal
     /\ Len(file_stack_) < MaxDepth
     /\ Called("pushFile", <<blame_location, source_location>>, state,
               IF resolved /\ emit
               THEN <<AddFileContent(base_vname, getBuffer(entry))>> ELSE <<>>,
               IF resolved THEN ctx.warn ELSE <<>>,
               IF resolved THEN <<vname>> ELSE <<>>)
     /\ file_stack_' = Append(file_stack_, state)
     /\ IF resolved
        THEN /\ transitively_reached_through_header_' =
                  IF in_header \/ (has_previous_uid /\ ~EndsWithInc(entry))
                  THEN transitively_reached_through_header_ \cup {uid}
                  ELSE transitively_reached_through_header_
             /\ recorded_files_' = IF claim_answer THEN recorded_files_ \cup {entry}
                                   ELSE recorded_files_
             /\ claim_checked_files_' = Emplace(claim_checked_files_, file, token)
             /\ claimed_file_specific_tokens_' =
                  IF claim_answer
                  THEN Emplace(claimed_file_specific_tokens_, file, file_token)
                  ELSE claimed_file_specific_tokens_
             /\ main_source_file_' = MainSourceFileAfter(has_previous_uid, loc, file)
        ELSE UNCHANGED <<transitively_reached_through_header_,
                         recorded_files_, claim_checked_files_,
                         claimed_file_specific_tokens_, main_source_file_>>
     /\ UNCHANGED <<deferred_anchors_, range_edges_, written_namespaces_,
                    written_types_, written_docs_, builtins_, meta_,
                    deferring_nodes_, drop_redundant_wraiths_, starting_context_,
                    FLAGS_fail_on_unimplemented_builtin, fatal>>

(* Variant of ClearedIfEmpty that never clears. *)
ClearedIfEmpty_Never(stack, anchors) == anchors

(* if (file_stack_.empty()) { deferred_anchors_.clear(); } *)
ClearedIfEmpty(stack, anchors) == IF stack = <<>> THEN {} ELSE anchors

(* Variant of popFile that also forgets the documentation written when   *)
(* the stack becomes empty.                                                *)
popFile_ClearsDocs ==
  /\ ~fatal
  /\ Called("popFile", <<>>, file_stack_ # <<>>, <<>>, <<>>, <<>>)
  /\ IF file_stack_ = <<>>
     THEN /\ fatal' = TRUE
          /\ UNCHANGED <<file_stack_, deferred_anchors_, written_docs_>>
     ELSE /\ file_stack_' = SubSeq(file_stack_, 1, Len(file_stack_) - 1)
          /\ deferred_anchors_' =
               ClearedIfEmpty(SubSeq(file_stack_, 1, Len(file_stack_) - 1),
                              deferred_anchors_)
          /\ written_docs_' = IF Len(file_stack_) = 1 THEN {} ELSE written_docs_
          /\ UNCHANGED fatal
  /\ UNCHANGED <<range_edges_, written_namespaces_, written_types_,
                 recorded_files_, claim_checked_files_,
                 claimed_file_specific_tokens_,
                 transitively_reached_through_header_, main_source_file_,
                 builtins_, meta_, deferring_nodes_, drop_redundant_wraiths_,
                 starting_context_,
                 FLAGS_fail_on_unimplemented_builtin>>

popFile ==
  /\ ~fatal
  /\ Called("popFile", <<>>, file_stack_ # <<>>, <<>>, <<>>, <<>>)
  /\ IF file_stack_ = <<>>
     THEN /\ fatal' = TRUE
          /\ UNCHANGED <<file_stack_, deferred_anchors_>>
     ELSE /\ file_stack_' = SubSeq(file_stack_, 1, Len(file_stack_) - 1)
          /\ deferred_anchors_' =
               ClearedIfEmpty(SubSeq(file_stack_, 1, Len(file_stack_) - 1),
                              deferred_anchors_)
          /\ UNCHANGED fatal
  /\ UNCHANGED <<range_edges_, written_namespaces_, written_types_, written_docs_,
                 recorded_files_, claim_checked_files_,
                 claimed_file_specific_tokens_,
                 transitively_reached_through_header_, main_source_file_,
                 builtins_, meta_, deferring_nodes_, drop_redundant_wraiths_,
                 starting_context_,
                 FLAGS_fail_on_unimplemented_builtin>>

(* applyMetadataFile(id, file); metadata is what meta_supports_->ParseFile *)
(* makes of the file's buffer, parsed is whether it makes anything of it.  *)
applyMetadataFile(id, file, parsed, metadata) ==
  /\ ~fatal
  /\ Called("applyMetadataFile", <<id, file, metadata>>,
            ~BufferUnreadable(file) /\ parsed, <<>>,
            IF BufferUnreadable(file)
            THEN <<"Couldn't get content for " \o file>> ELSE <<>>,
            <<>>)
  /\ meta_' = IF ~BufferUnreadable(file) /\ parsed
              THEN Append(meta_, [fid |-> id, rules |-> metadata])
              ELSE meta_
  /\ UNCHANGED <<file_stack_, deferred_anchors_, range_edges_,
                 written_namespaces_, written_types_, written_docs_,
                 recorded_files_, claim_checked_files_,
                 claimed_file_specific_tokens_,
                 transitively_reached_through_header_, main_source_file_,
                 builtins_, deferring_nodes_, drop_redundant_wraiths_,
                 starting_context_, FLAGS_fail_on_unimplemented_builtin, fatal>>

-----------------------------------------------------------------------------
(* What the AST walker passes in: nodes named under a claim token the      *)
(* observer handed out, and ranges over the translation unit.              *)

(* The token cached for a file, the default token when none is. *)
TokenForFile(file) ==
  IF file = InvalidFileID THEN default_token_
  ELSE IF file \in DOMAIN claim_checked_files_
       THEN claim_checked_files_[file] ELSE default_token_

getClaimTokenForLocation(source_location) ==
  IF ~isValid(source_location) THEN default_token_
  ELSE TokenForFile(getFileID(ExpansionLocIfMacro(source_location)))

FileTokens == {claim_checked_files_[f] : f \in DOMAIN claim_checked_files_}
WalkerTokens == {default_token_} \cup FileTokens

PhysicalRange(begin, end) ==
  Range("Physical", begin, end, NodeId(getClaimTokenForLocation(begin), ""))
WraithRange(begin, end, context) == Range("Wraith", begin, end, context)
ImplicitRange(node) == Range("Implicit", InvalidLoc, InvalidLoc, node)

-----------------------------------------------------------------------------
(* Anchor-recording operations. *)

AnchorState ==
  [anchors |-> deferred_anchors_, edges |-> range_edges_, out |-> <<>>,
   log |-> <<>>, fatal |-> FALSE]

(* The effect of an anchor-recording call whose result is r. *)
AnchorCall(op, args, r) ==
  /\ ~fatal
  /\ Called(op, args, ~r.fatal, r.out, r.log, <<>>)
  /\ deferred_anchors_' = r.anchors
  /\ range_edges_' = r.edges
  /\ fatal' = r.fatal
  /\ UNCHANGED <<file_stack_, written_namespaces_, written_types_, written_docs_,
                 recorded_files_, claim_checked_files_,
                 claimed_file_specific_tokens_,
                 transitively_reached_through_header_, main_source_file_,
                 builtins_, meta_, deferring_nodes_, drop_redundant_wraiths_,
                 starting_context_,
                 FLAGS_fail_on_unimplemented_builtin>>

(* The operations that record one anchor as Claimable, and their edge kind. *)
ClaimableEdgeKind(op) ==
  CASE op = "recordExpandsRange" -> "ref/expands"
    [] op = "recordIndirectlyExpandsRange" -> "ref/expands/transitive"
    [] op = "recordUndefinesRange" -> "undefines"
    [] op = "recordBoundQueryRange" -> "ref/queries"
    [] op = "recordDocumentationRange" -> "documents"
    [] op = "recordFullDefinitionRange" -> "defines"
    [] op = "recordDefinitionBindingRange" -> "defines/binding"
    [] op = "recordDeclUseLocationInDocumentation" -> "ref/doc"

recordClaimableRange(op, source_range, node) ==
  AnchorCall(op, <<source_range, node>>,
             RecordAnchor(AnchorState, source_range, node, ClaimableEdgeKind(op),
                          "Claimable"))

recordDeclUseLocation(source_range, node, claimability) ==
  AnchorCall("recordDeclUseLocation", <<source_range, node, claimability>>,
             RecordAnchor(AnchorState, source_range, node, "ref", claimability))

recordTypeSpellingLocation(type_source_range, type_id, claimability) ==
  AnchorCall("recordTypeSpellingLocation",
             <<type_source_range, type_id, claimability>>,
             RecordAnchor(AnchorState, type_source_range, type_id, "ref",
                          claimability))

recordCompletionRange(source_range, node, spec) ==
  AnchorCall("recordCompletionRange", <<source_range, node, spec>>,
             RecordAnchor(AnchorState, source_range, node,
                          IF spec = "UniquelyCompletes" THEN "completes/uniquely"
                          ELSE "completes",
                          "Unclaimable"))

recordDefinitionRangeWithBinding(source_range, binding_range, node) ==
  AnchorCall("recordDefinitionRangeWithBinding",
             <<source_range, binding_range, node>>,
             RecordAnchor(
               RecordAnchor(AnchorState, source_range, node, "defines", "Claimable"),
               binding_range, node, "defines/binding", "Claimable"))

recordCallEdge(source_range, caller_id, callee_id) ==
  AnchorCall("recordCallEdge", <<source_range, caller_id, callee_id>>,
             RecordAnchor(
               RecordAnchor(AnchorState, source_range, caller_id, "childof",
                            "Claimable"),
               source_range, callee_id, "ref/call", "Unclaimable"))

recordIncludesRange(source_range, File) ==
  AnchorCall("recordIncludesRange", <<source_range, File>>,
             RecordAnchorVName(AnchorState, source_range, VNameFromFileEntry(File),
                               "ref/includes", "Claimable"))

(* AppendRangeToStream as the walker calls it: the text written is the    *)
(* result, and the observer is left as it was.                             *)
AppendRangeToStreamCall(range) ==
  /\ ~fatal
  /\ Called("AppendRangeToStream", <<range>>, AppendRangeToStream(range),
            <<>>, <<>>, <<>>)
  /\ UNCHANGED <<file_stack_, deferred_anchors_, range_edges_,
                 written_namespaces_, written_types_, written_docs_,
                 recorded_files_, claim_checked_files_,
                 claimed_file_specific_tokens_,
                 transitively_reached_through_header_, main_source_file_,
                 builtins_, meta_, deferring_nodes_, drop_redundant_wraiths_,
                 starting_context_,
                 FLAGS_fail_on_unimplemented_builtin, fatal>>

-----------------------------------------------------------------------------
(* Node-recording operations. *)

NoNode == NodeId(default_token_, "<no node>")
NoMarkedSource == ""

(* The effect of a call that writes only the dedup sets and the recorder:  *)
(* it returns ret, passes facts, and leaves the three sets as given.       *)
NodeCall(op, args, ret, facts, namespaces, types, docs, failed) ==
  /\ ~fatal
  /\ Called(op, args, ret, facts, <<>>, <<>>)
  /\ written_namespaces_' = namespaces
  /\ written_types_' = types
  /\ written_docs_' = docs
  /\ fatal' = failed
  /\ UNCHANGED <<file_stack_, deferred_anchors_, range_edges_, recorded_files_,
                 claim_checked_files_, claimed_file_specific_tokens_,
                 transitively_reached_through_header_, main_source_file_,
                 builtins_, meta_, deferring_nodes_, drop_redundant_wraiths_,
                 starting_context_,
                 FLAGS_fail_on_unimplemented_builtin>>

recordNamespaceNode(node, marked_source) ==
  LET node_vname == VNameRefFromNodeId(node)
      fresh == ToClaimedString(node) \notin written_namespaces_
  IN NodeCall("recordNamespaceNode", <<node, marked_source>>, node,
              IF fresh
              THEN << AddNodeKind(node_vname, "package"),
                      AddProperty(node_vname, "/kythe/subkind", "namespace") >>
                   \o AddMarkedSource(node_vname, marked_source)
              ELSE <<>>,
              written_namespaces_ \cup {ToClaimedString(node)},
              written_types_, written_docs_, FALSE)

(* Variant: the dedup set is not consulted. *)
TypeIsEmitted_NoDedup(type_id) == TRUE

(* `!deferring_nodes_ || written_types_.insert(id).second`: whether the    *)
(* node facts are emitted, and the set afterwards.                         *)
TypeIsEmitted(type_id) ==
  ~deferring_nodes_ \/ ToClaimedString(type_id) \notin written_types_
(* Variant of TypesAfter that notes the type in either mode. *)
TypesAfter_Always(type_id) == written_types_ \cup {ToClaimedString(type_id)}

TypesAfter(type_id) ==
  IF deferring_nodes_ THEN written_types_ \cup {ToClaimedString(type_id)}
  ELSE written_types_

nodeIdForTypeAliasNode(alias_name, aliased_type) ==
  NodeId(type_token_,
         "talias(" \o alias_name \o "," \o ToClaimedString(aliased_type) \o ")")

recordTypeAliasNode(alias_name, aliased_type, root_aliased_type, marked_source) ==
  LET type_id == nodeIdForTypeAliasNode(alias_name, aliased_type)
      type_vname == VNameRefFromNodeId(type_id)
  IN NodeCall("recordTypeAliasNode",
              <<alias_name, aliased_type, root_aliased_type, marked_source>>,
              type_id,
              IF TypeIsEmitted(type_id)
              THEN << AddNodeKind(type_vname, "talias") >>
                   \o AddMarkedSource(type_vname, marked_source)
                   \o << AddEdge(type_vname, "aliases",
                                 VNameRefFromNodeId(aliased_type), NoOrdinal) >>
                   \o (IF root_aliased_type # NoNode
                       THEN << AddEdge(type_vname, "aliases/root",
                                       VNameRefFromNodeId(root_aliased_type),
                                       NoOrdinal) >>
                       ELSE <<>>)
              ELSE <<>>,
              written_namespaces_, TypesAfter(type_id), written_docs_, FALSE)

(* Variant: a name gets another identity once its type node was written. *)
nodeIdForNominalTypeNode_Completed(name_id) ==
  NodeId(type_token_,
         IF (name_id \o "#t") \in written_types_ THEN name_id \o "#t#def"
         ELSE name_id \o "#t")

nodeIdForNominalTypeNode(name_id) == NodeId(type_token_, name_id \o "#t")

(* decl tells whether the walker met a forward declaration or a definition *)
(* of the name; the operation has no parameter for it.                     *)
recordNominalTypeNode(name_id, marked_source, parent, decl) ==
  LET id_out == nodeIdForNominalTypeNode(name_id)
      type_vname == VNameRefFromNodeId(id_out)
  IN NodeCall("recordNominalTypeNode", <<name_id, marked_source, parent, decl>>,
              id_out,
              IF TypeIsEmitted(id_out)
              THEN AddMarkedSource(type_vname, marked_source)
                   \o << AddNodeKind(type_vname, "tnominal") >>
                   \o (IF parent # NoNode
                       THEN << AddEdge(type_vname, "childof",
                                       VNameRefFromNodeId(parent), NoOrdinal) >>
                       ELSE <<>>)
              ELSE <<>>,
              written_namespaces_, TypesAfter(id_out), written_docs_, FALSE)

ClaimedStrings(params) == [i \in 1..Len(params) |-> ToClaimedString(params[i])]

(* Variant of ParamEdges that numbers the parameters one further on. *)
ParamEdges_Shifted(vname, params, first_ordinal) ==
  [i \in 1..Len(params) |->
     AddEdge(vname, "param", VNameRefFromNodeId(params[i]), first_ordinal + i)]

ParamEdges(vname, params, first_ordinal) ==
  [i \in 1..Len(params) |->
     AddEdge(vname, "param", VNameRefFromNodeId(params[i]), first_ordinal + i - 1)]

TsigmaIdentity(params) ==
  "#sigma(" \o JoinWith(ClaimedStrings(params), ",") \o ")"

recordTsigmaNode(params) ==
  LET id_out == NodeId(type_token_, TsigmaIdentity(params))
      tsigma_vname == VNameRefFromNodeId(id_out)
  IN NodeCall("recordTsigmaNode", <<params>>, id_out,
              IF TypeIsEmitted(id_out)
              THEN << AddNodeKind(tsigma_vname, "tsigma") >>
                   \o ParamEdges(tsigma_vname, params, 0)
              ELSE <<>>,
              written_namespaces_, TypesAfter(id_out), written_docs_, FALSE)

(* Variant: two parameters are joined in an order that does not depend on *)
(* the order of the call.                                                 *)
TappIdentity_Unordered(tycon_id, params) ==
  LET cs == ClaimedStrings(params)
      one == CHOOSE x \in {cs[1], cs[2]} : TRUE
      other == CHOOSE x \in {cs[1], cs[2]} : {one, x} = {cs[1], cs[2]}
  IN ToClaimedString(tycon_id) \o "("
       \o (IF Len(params) = 2 THEN one \o "," \o other ELSE JoinWith(cs, ","))
       \o ")"

TappIdentity(tycon_id, params) ==
  ToClaimedString(tycon_id) \o "(" \o JoinWith(ClaimedStrings(params), ",") \o ")"

recordTappNode(tycon_id, params, FirstDefaultParam) ==
  LET id_out == NodeId(type_token_, TappIdentity(tycon_id, params))
      tapp_vname == VNameRefFromNodeId(id_out)
  IN IF FirstDefaultParam > Len(params)
     THEN NodeCall("recordTappNode", <<tycon_id, params, FirstDefaultParam>>,
                   NoNode, <<>>, written_namespaces_, written_types_,
                   written_docs_, TRUE)
     ELSE NodeCall("recordTappNode", <<tycon_id, params, FirstDefaultParam>>,
                   id_out,
                   IF TypeIsEmitted(id_out)
                   THEN << AddNodeKind(tapp_vname, "tapp") >>
                        \o (IF FirstDefaultParam < Len(params)
                            THEN << AddProperty(tapp_vname, "/kythe/param/default",
                                                ToString(FirstDefaultParam)) >>
                            ELSE <<>>)
                        \o << AddEdge(tapp_vname, "param",
                                      VNameRefFromNodeId(tycon_id), 0) >>
                        \o ParamEdges(tapp_vname, params, 1)
                   ELSE <<>>,
                   written_namespaces_, TypesAfter(id_out), written_docs_, FALSE)

-----------------------------------------------------------------------------
(* Edge-recording operations between two nodes: each passes one edge. *)

(* Variant: an edge already passed to the recorder is not passed again. *)
EdgeCall_Dedup(op, args, from, edge_kind, to, ordinal) ==
  LET edge == AddEdge(VNameRefFromNodeId(from), edge_kind, VNameRefFromNodeId(to),
                      ordinal)
  IN NodeCall(op, args, NoNode,
              IF \E k \in 1..Len(Recorded) : Recorded[k] = edge THEN <<>>
              ELSE <<edge>>,
              written_namespaces_, written_types_, written_docs_, FALSE)

EdgeCall(op, args, from, edge_kind, to, ordinal) ==
  NodeCall(op, args, NoNode,
           << AddEdge(VNameRefFromNodeId(from), edge_kind, VNameRefFromNodeId(to),
                      ordinal) >>,
           written_namespaces_, written_types_, written_docs_, FALSE)

recordParamEdge(param_of_id, ordinal, param_id) ==
  EdgeCall("recordParamEdge", <<param_of_id, ordinal, param_id>>,
           param_of_id, "param", param_id, ordinal)

recordChildOfEdge(child_id, parent_id) ==
  EdgeCall("recordChildOfEdge", <<child_id, parent_id>>,
           child_id, "childof", parent_id, NoOrdinal)

recordTypeEdge(term_id, type_id) ==
  EdgeCall("recordTypeEdge", <<term_id, type_id>>,
           term_id, "typed", type_id, NoOrdinal)

recordUpperBoundEdge(TypeNodeId, TypeBoundNodeId) ==
  EdgeCall("recordUpperBoundEdge", <<TypeNodeId, TypeBoundNodeId>>,
           TypeNodeId, "bounded/upper", TypeBoundNodeId, NoOrdinal)

recordSpecEdge(term_id, type_id, conf) ==
  EdgeCall("recordSpecEdge", <<term_id, type_id, conf>>, term_id,
           IF conf = "NonSpeculative" THEN "specializes"
           ELSE "specializes/speculative",
           type_id, NoOrdinal)

recordInstEdge(term_id, type_id, conf) ==
  EdgeCall("recordInstEdge", <<term_id, type_id, conf>>, term_id,
           IF conf = "NonSpeculative" THEN "instantiates"
           ELSE "instantiates/speculative",
           type_id, NoOrdinal)

recordOverridesEdge(overrider, base_object) ==
  EdgeCall("recordOverridesEdge", <<overrider, base_object>>,
           overrider, "overrides", base_object, NoOrdinal)

recordOverridesRootEdge(overrider, root_object) ==
  EdgeCall("recordOverridesRootEdge", <<overrider, root_object>>,
           overrider, "overrides/root", root_object, NoOrdinal)

recordCategoryExtendsEdge(from, to) ==
  EdgeCall("recordCategoryExtendsEdge", <<from, to>>,
           from, "extends/category", to, NoOrdinal)

ExtendsEdgeKind(is_virtual, specifier) ==
  CASE specifier = "AS_public" ->
         IF is_virtual THEN "extends/public/virtual" ELSE "extends/public"
    [] specifier = "AS_protected" ->
         IF is_virtual THEN "extends/protected/virtual" ELSE "extends/protected"
    [] specifier = "AS_private" ->
         IF is_virtual THEN "extends/private/virtual" ELSE "extends/private"
    [] OTHER -> IF is_virtual THEN "extends/virtual" ELSE "extends"

recordExtendsEdge(from, to, is_virtual, specifier) ==
  EdgeCall("recordExtendsEdge", <<from, to, is_virtual, specifier>>,
           from, ExtendsEdgeKind(is_virtual, specifier), to, NoOrdinal)

-----------------------------------------------------------------------------
(* Deferred-nodes mode. *)

SetDeferring(op, value) ==
  /\ ~fatal
  /\ deferring_nodes_ # value
  /\ Called(op, <<>>, value, <<>>, <<>>, <<>>)
  /\ deferring_nodes_' = value
  /\ UNCHANGED <<file_stack_, deferred_anchors_, range_edges_,
                 written_namespaces_, written_types_, written_docs_,
                 recorded_files_, claim_checked_files_,
                 claimed_file_specific_tokens_,
                 transitively_reached_through_header_, main_source_file_,
                 builtins_, meta_, drop_redundant_wraiths_, starting_context_,
                 FLAGS_fail_on_unimplemented_builtin, fatal>>

Delimit == SetDeferring("Delimit", TRUE)
Undelimit == SetDeferring("Undelimit", FALSE)

-----------------------------------------------------------------------------
(* Builtins and their signature trees. *)

MarkedSource(kind, pre_text, post_child_text, post_text, lookup_index, child) ==
  [kind |-> kind, pre_text |-> pre_text, post_child_text |-> post_child_text,
   post_text |-> post_text, lookup_index |-> lookup_index, child |-> child]

(* sig.set_kind(MarkedSource::IDENTIFIER); sig.set_pre_text(token); *)
IdentifierSource(token) == MarkedSource("IDENTIFIER", token, "", "", 0, <<>>)

(* lookup->set_kind(MarkedSource::LOOKUP_BY_PARAM); set_lookup_index(index) *)
LookupByParam(index) == MarkedSource("LOOKUP_BY_PARAM", "", "", "", index, <<>>)

(* A MarkedSource with nothing set but its children. *)
BoxOf(child) == MarkedSource("BOX", "", "", "", 0, child)

(* The name and the token of every RegisterTokenBuiltin call. *)
TokenBuiltins ==
  {<<"void", "void">>, <<"bool", "bool">>, <<"_Bool", "_Bool">>,
   <<"signed char", "signed char">>, <<"char", "char">>,
   <<"char16_t", "char16_t">>, <<"char32_t", "char32_t">>,
   <<"wchar_t", "wchar_t">>, <<"short", "short">>, <<"int", "int">>,
   <<"long", "long">>, <<"long long", "long long">>,
   <<"unsigned char", "unsigned char">>, <<"unsigned short", "unsigned short">>,
   <<"unsigned int", "unsigned int">>, <<"unsigned long", "unsigned long">>,
   <<"unsigned long long", "unsigned long long">>, <<"float", "float">>,
   <<"double", "double">>, <<"long double", "long double">>,
   <<"nullptr_t", "nullptr_t">>, <<"<dependent type>", "dependent">>,
   <<"auto", "auto">>, <<"knrfn", "function">>, <<"__int128", "__int128">>,
   <<"unsigned __int128", "unsigned __int128">>, <<"SEL", "SEL">>,
   <<"id", "id">>, <<"TypeUnion", "TypeUnion">>}

(* The tree of const, volatile and restrict: the text, then the parameter. *)
lhs_tycon_builtin(pre_text) ==
  BoxOf(<<IdentifierSource(pre_text), LookupByParam(1)>>)

(* Variant of rhs_tycon_builtin with the text before the parameter. *)
rhs_tycon_builtin_TextFirst(pre_text) ==
  BoxOf(<<IdentifierSource(pre_text), LookupByParam(1)>>)

(* The tree of ptr, lvr, rvr and the arrays: the parameter, then the text. *)
rhs_tycon_builtin(pre_text) ==
  BoxOf(<<LookupByParam(1), IdentifierSource(pre_text)>>)

(* The tree of fn and, with the vararg keyword added, of fnvararg. *)
function_tycon_builtin(vararg) ==
  BoxOf(<<LookupByParam(1),
          MarkedSource("PARAMETER_LOOKUP_BY_PARAM", "(", ", ", ")", 2, <<>>)>>
        \o (IF vararg THEN <<IdentifierSource("vararg")>> ELSE <<>>))

(* The type constructors RegisterBuiltins registers, with their trees. *)
TyconBuiltins ==
  {<<"const", lhs_tycon_builtin("const ")>>,
   <<"volatile", lhs_tycon_builtin("volatile ")>>,
   <<"restrict", lhs_tycon_builtin("restrict ")>>,
   <<"ptr", rhs_tycon_builtin("*")>>,
   <<"lvr", rhs_tycon_builtin("&")>>,
   <<"rvr", rhs_tycon_builtin("&&")>>,
   <<"iarr", rhs_tycon_builtin("[incomplete]")>>,
   <<"carr", rhs_tycon_builtin("[const]")>>,
   <<"darr", rhs_tycon_builtin("[dependent]")>>,
   <<"fn", function_tycon_builtin(FALSE)>>,
   <<"fnvararg", function_tycon_builtin(TRUE)>>}

Builtin(name, marked_source, emitted) ==
  [node_id |-> NodeId(default_token_, name \o "#builtin"),
   marked_source |-> marked_source, emitted |-> emitted]

(* builtins_ after RegisterBuiltins: nothing emitted yet. *)
RegisterBuiltins ==
  [name \in {b[1] : b \in TokenBuiltins \cup TyconBuiltins} |->
     IF \E b \in TyconBuiltins : b[1] = name
     THEN Builtin(name, (CHOOSE b \in TyconBuiltins : b[1] = name)[2], FALSE)
     ELSE Builtin(name,
                  IdentifierSource((CHOOSE b \in TokenBuiltins : b[1] = name)[2]),
                  FALSE)]

(* The text of a signature tree as the recorder is given it. *)
RECURSIVE MarkedSourceText(_)
MarkedSourceText(ms) ==
  ms.kind \o "{" \o ms.pre_text \o "|" \o ms.post_child_text \o "|"
  \o ms.post_text \o "|" \o ToString(ms.lookup_index) \o "|"
  \o JoinWith([i \in 1..Len(ms.child) |-> MarkedSourceText(ms.child[i])], ",")
  \o "}"

(* The facts EmitBuiltin passes to the recorder. *)
EmitBuiltin(builtin) ==
  <<AddNodeKind(VNameRefFromNodeId(builtin.node_id), "builtin")>>
  \o AddMarkedSource(VNameRefFromNodeId(builtin.node_id),
                     MarkedSourceText(builtin.marked_source))

(* Variant of BuiltinFor that makes up a tree without kind or text. *)
BuiltinFor_Anonymous(spelling) ==
  IF spelling \in DOMAIN builtins_ THEN builtins_[spelling]
  ELSE Builtin(spelling, BoxOf(<<>>), FALSE)

(* Variant of BuiltinFor whose entries never count as emitted. *)
BuiltinFor_NeverEmitted(spelling) ==
  Builtin(spelling,
          IF spelling \in DOMAIN builtins_ THEN builtins_[spelling].marked_source
          ELSE IdentifierSource(spelling),
          FALSE)

(* The entry getNodeIdForBuiltinType answers from: the registered one, or  *)
(* the identifier it makes up for a spelling that is missing.              *)
BuiltinFor(spelling) ==
  IF spelling \in DOMAIN builtins_ THEN builtins_[spelling]
  ELSE Builtin(spelling, IdentifierSource(spelling), FALSE)

getNodeIdForBuiltinType(spelling) ==
  /\ ~fatal
  /\ IF spelling \notin DOMAIN builtins_ /\ FLAGS_fail_on_unimplemented_builtin
     THEN /\ Called("getNodeIdForBuiltinType", <<spelling>>, NoNode, <<>>,
                    <<"Missing builtin " \o spelling>>, <<>>)
          /\ fatal' = TRUE
          /\ UNCHANGED builtins_
     ELSE /\ Called("getNodeIdForBuiltinType", <<spelling>>,
                    BuiltinFor(spelling).node_id,
                    IF BuiltinFor(spelling).emitted THEN <<>>
                    ELSE EmitBuiltin(BuiltinFor(spelling)),
                    IF spelling \notin DOMAIN builtins_
                    THEN <<"Missing builtin " \o spelling>> ELSE <<>>,
                    <<>>)
          /\ builtins_' =
               [name \in DOMAIN builtins_ \cup {spelling} |->
                  IF name = spelling
                  THEN [BuiltinFor(spelling) EXCEPT !.emitted = TRUE]
                  ELSE builtins_[name]]
          /\ UNCHANGED fatal
  /\ UNCHANGED <<file_stack_, deferred_anchors_, range_edges_,
                 written_namespaces_, written_types_, written_docs_,
                 recorded_files_, claim_checked_files_,
                 claimed_file_specific_tokens_,
                 transitively_reached_through_header_, main_source_file_,
                 meta_, deferring_nodes_, drop_redundant_wraiths_,
                 starting_context_, FLAGS_fail_on_unimplemented_builtin>>

(* The renderer: the text of a signature tree under the trees bound to     *)
(* its parameters, params[i] being the tree of parameter i.  Text before,  *)
(* the children in order with the separator between them, text after; a    *)
(* lookup is replaced by the rendering of the parameter it names, a        *)
(* parameter-list lookup by those of the parameters from its index on.     *)
RECURSIVE Render(_, _)
Render(ms, params) ==
  ms.pre_text
  \o (CASE ms.kind = "LOOKUP_BY_PARAM" ->
             IF ms.lookup_index \in 1..Len(params)
             THEN Render(params[ms.lookup_index], <<>>) ELSE ""
        [] ms.kind = "PARAMETER_LOOKUP_BY_PARAM" ->
             JoinWith([i \in 1..(Len(params) + 1 - ms.lookup_index) |->
                         Render(params[ms.lookup_index + i - 1], <<>>)],
                      ms.post_child_text)
        [] OTHER ->
             JoinWith([i \in 1..Len(ms.child) |-> Render(ms.child[i], params)],
                      ms.post_child_text))
  \o ms.post_text

(* The signature of a registered builtin rendered under parameter trees. *)
RenderBuiltin(spelling, params) ==
  /\ ~fatal
  /\ spelling \in DOMAIN builtins_
  /\ Called("Render", <<spelling, params>>,
            Render(builtins_[spelling].marked_source, params), <<>>, <<>>, <<>>)
  /\ UNCHANGED <<file_stack_, deferred_anchors_, range_edges_,
                 written_namespaces_, written_types_, written_docs_,
                 recorded_files_, claim_checked_files_,
                 claimed_file_specific_tokens_,
                 transitively_reached_through_header_, main_source_file_,
                 builtins_, meta_, deferring_nodes_, drop_redundant_wraiths_,
                 starting_context_, FLAGS_fail_on_unimplemented_builtin, fatal>>

-----------------------------------------------------------------------------
(* The observer after construction. *)

InitWith(deferring, dropping, contexts, strict) ==
  /\ file_stack_ = <<>>
  /\ deferred_anchors_ = {}
  /\ range_edges_ = {}
  /\ written_namespaces_ = {}
  /\ written_types_ = {}
  /\ written_docs_ = {}
  /\ recorded_files_ = {}
  /\ claim_checked_files_ = << >>
  /\ claimed_file_specific_tokens_ = << >>
  /\ transitively_reached_through_header_ = {}
  /\ main_source_file_ = NoMain
  /\ builtins_ = RegisterBuiltins
  /\ meta_ = <<>>
  /\ deferring_nodes_ \in deferring
  /\ drop_redundant_wraiths_ \in dropping
  /\ starting_context_ \in contexts
  /\ FLAGS_fail_on_unimplemented_builtin \in strict
  /\ fatal = FALSE
  /\ trace = <<>>

-----------------------------------------------------------------------------
(* Type and namespace nodes, and the edges between nodes. *)

(* The bound on the length of a run. *)
CallsLeft == Len(trace) < MaxCalls

(* The signature loop of recordDocumentationText: a comma and the claimed  *)
(* string of every link, appended to the text.                             *)
RECURSIVE AppendLinks(_, _)
AppendLinks(signature, doc_links) ==
  IF doc_links = <<>> THEN signature
  ELSE AppendLinks(signature \o "," \o ToClaimedString(Head(doc_links)),
                   Tail(doc_links))

(* NodeId doc_id(node.getToken(), CompressString(signature, true)) *)
DocId(node, doc_text, doc_links) ==
  NodeId(node.token, CompressString(AppendLinks(doc_text, doc_links), TRUE))

(* Variant of DocIsWritten that forgets the doc nodes already written. *)
DocIsWritten_Never(doc_id) == FALSE

(* !written_docs_.insert(doc_id.ToClaimedString()).second *)
DocIsWritten(doc_id) == ToClaimedString(doc_id) \in written_docs_

recordDocumentationText(node, doc_text, doc_links) ==
  NodeCall("recordDocumentationText", <<node, doc_text, doc_links>>, TRUE,
           (IF DocIsWritten(DocId(node, doc_text, doc_links)) THEN <<>>
            ELSE << AddNodeKind(VNameRefFromNodeId(DocId(node, doc_text, doc_links)),
                                "doc"),
                    AddProperty(VNameRefFromNodeId(DocId(node, doc_text, doc_links)),
                                "/kythe/text", doc_text) >>
                 \o ParamEdges(VNameRefFromNodeId(DocId(node, doc_text, doc_links)),
                               doc_links, 0))
           \o << AddEdge(VNameRefFromNodeId(DocId(node, doc_text, doc_links)),
                         "documents", VNameRefFromNodeId(node), NoOrdinal) >>,
           written_namespaces_, written_types_,
           written_docs_ \cup {ToClaimedString(DocId(node, doc_text, doc_links))},
           FALSE)

NodeA == NodeId(default_token_, "A#n")
NodeB == NodeId(KytheClaimToken(VName("", "k", "", "a.h", ""), FALSE, FALSE), "B#n")
TypeC == nodeIdForNominalTypeNode("C#c")
TappCAB == NodeId(type_token_, TappIdentity(TypeC, <<NodeA, NodeB>>))

nodeIdForNominalTypeNodeCall(name_id) ==
  NodeCall("nodeIdForNominalTypeNode", <<name_id>>,
           nodeIdForNominalTypeNode(name_id), <<>>,
           written_namespaces_, written_types_, written_docs_, FALSE)

NextNodes ==
  \/ CallsLeft /\ \E n \in {NodeA, NodeB} : recordNamespaceNode(n, NoMarkedSource)
  \/ CallsLeft /\ \E decl \in {"forward", "definition"} :
                    recordNominalTypeNode("C#c", "C", NoNode, decl)
  \/ CallsLeft /\ recordNominalTypeNode("D#c", NoMarkedSource, NodeA, "forward")
  \/ CallsLeft /\ nodeIdForNominalTypeNodeCall("C#c")
  \/ CallsLeft /\ recordTsigmaNode(<<NodeA, NodeB>>)
  \/ CallsLeft /\ \E ps \in {<<NodeA, NodeB>>, <<NodeB, NodeA>>, <<TappCAB, NodeA>>,
                             <<NodeA, TappCAB>>} :
                    recordTappNode(TypeC, ps, 2)
  \/ CallsLeft /\ \E root \in {NoNode, NodeB} :
                    recordTypeAliasNode("T#c", TypeC, root, NoMarkedSource)
  \/ CallsLeft /\ Delimit
  \/ CallsLeft /\ Undelimit

SpecNodes == InitWith(BOOLEAN, {FALSE}, {""}, {FALSE}) /\ [][NextNodes]_vars

NextEdges ==
  \/ CallsLeft /\ \E ordinal \in {0, 1} : recordParamEdge(NodeA, ordinal, NodeB)
  \/ CallsLeft /\ \E parent \in {NodeA, NodeB} : recordChildOfEdge(TypeC, parent)
  \/ CallsLeft /\ recordTypeEdge(NodeA, TypeC)
  \/ CallsLeft /\ recordOverridesEdge(NodeA, NodeB)
  \/ CallsLeft /\ \E is_virtual \in BOOLEAN :
                    recordExtendsEdge(NodeB, NodeA, is_virtual, "AS_public")
  \/ CallsLeft /\ \E conf \in {"NonSpeculative", "Speculative"} : recordSpecEdge(NodeA, NodeB, conf)
  \/ CallsLeft /\ recordInstEdge(NodeA, NodeB, "NonSpeculative")
  \/ CallsLeft /\ recordNominalTypeNode("C#c", NoMarkedSource, NodeA, "forward")
  \/ CallsLeft /\ recordNamespaceNode(NodeA, NoMarkedSource)
  \/ CallsLeft /\ Delimit
  \/ CallsLeft /\ Undelimit

SpecEdges == InitWith(BOOLEAN, {FALSE}, {""}, {FALSE}) /\ [][NextEdges]_vars

-----------------------------------------------------------------------------
(* Properties of the node and edge operations. *)

TypeOps == {"recordNominalTypeNode", "recordTsigmaNode", "recordTappNode",
            "recordTypeAliasNode"}

IsNodeKindFact(fact, vname) ==
  fact.f = "property" /\ fact.kind = "/kythe/node/kind" /\ fact.src = vname

(* A call of a type operation in deferred-nodes mode that returned a node. *)
DeferredTypeCall(i) ==
  trace[i].op \in TypeOps /\ trace[i].deferring /\ trace[i].ret # NoNode

(* Call i is not the first deferred-mode call naming its type node. *)
TypeNamedBefore(i) ==
  \E j \in 1..(i - 1) :
    DeferredTypeCall(j)
    /\ ToClaimedString(trace[j].ret) = ToClaimedString(trace[i].ret)

NamespaceNamedBefore(i) ==
  \E j \in 1..(i - 1) :
    trace[j].op = "recordNamespaceNode"
    /\ ToClaimedString(trace[j].args[1]) = ToClaimedString(trace[i].args[1])

(* C2: in deferred-nodes mode the node facts of a type node or namespace    *)
(* node are passed to the recorder by the first call that names its claimed *)
(* identity, once, and a later call with that identity passes nothing and   *)
(* returns the same NodeId.  (A namespace also counts as named by a call    *)
(* made outside the mode.)                                                  *)
C2_NodeFactsOnce ==
  \A i \in 1..Len(trace) :
    /\ DeferredTypeCall(i) =>
         /\ ~TypeNamedBefore(i) =>
              Count(trace[i].out,
                    LAMBDA f : IsNodeKindFact(f, VNameRefFromNodeId(trace[i].ret))) = 1
         /\ TypeNamedBefore(i) => trace[i].out = <<>>
         /\ \A j \in 1..(i - 1) :
              (DeferredTypeCall(j)
               /\ ToClaimedString(trace[j].ret) = ToClaimedString(trace[i].ret))
              => trace[j].ret = trace[i].ret
    /\ (trace[i].op = "recordNamespaceNode" /\ trace[i].deferring) =>
         /\ ~NamespaceNamedBefore(i) =>
              Count(trace[i].out,
                    LAMBDA f : IsNodeKindFact(f, VNameRefFromNodeId(trace[i].args[1]))) = 1
         /\ NamespaceNamedBefore(i) => trace[i].out = <<>>

C2_Witness ==
  \E i \in 1..Len(trace) :
    /\ DeferredTypeCall(i) /\ TypeNamedBefore(i)
    /\ \E j \in 1..(i - 1) :
         trace[j].op = "recordNamespaceNode" /\ trace[j].deferring
         /\ trace[j].out # <<>>

EdgeOps == {"recordParamEdge", "recordChildOfEdge", "recordTypeEdge",
            "recordOverridesEdge", "recordExtendsEdge", "recordSpecEdge",
            "recordInstEdge"}

(* The two ends of the edge a call of an edge operation names. *)
EdgeFrom(call) == call.args[1]
EdgeTo(call) == IF call.op = "recordParamEdge" THEN call.args[3] ELSE call.args[2]

SameCall(a, b) == a.op = b.op /\ a.args = b.args

(* C3: every call of an edge operation passes exactly one edge, from its    *)
(* first node to its second, in either mode and whatever was recorded       *)
(* before; so N calls with the same arguments pass N equal edges.           *)
C3_EdgesNotDeduplicated ==
  \A i \in 1..Len(trace) :
    trace[i].op \in EdgeOps =>
      /\ Len(trace[i].out) = 1
      /\ trace[i].out[1].f = "edge"
      /\ trace[i].out[1].src = VNameRefFromNodeId(EdgeFrom(trace[i]))
      /\ trace[i].out[1].dst = VNameRefFromNodeId(EdgeTo(trace[i]))
      /\ Count(Recorded, LAMBDA f : f = trace[i].out[1])
           >= Count(trace, LAMBDA c : SameCall(c, trace[i]))

C3_Witness ==
  \E i, j \in 1..Len(trace) :
    /\ i < j /\ trace[i].op \in EdgeOps /\ SameCall(trace[i], trace[j])
    /\ trace[j].deferring
    /\ Count(Recorded, LAMBDA f : f = trace[i].out[1]) = 2

NominalOps == {"recordNominalTypeNode", "nodeIdForNominalTypeNode"}

(* C4: the node of a nominal type is the name's identity followed by "#t"   *)
(* under the type token, for a forward declaration and for a definition,    *)
(* in either mode and however often the name was recorded before.           *)
C4_NominalIdentity ==
  \A i \in 1..Len(trace) :
    trace[i].op \in NominalOps =>
      /\ trace[i].ret = NodeId(type_token_, trace[i].args[1] \o "#t")
      /\ \A j \in 1..Len(trace) :
           (trace[j].op \in NominalOps /\ trace[j].args[1] = trace[i].args[1])
           => trace[j].ret = trace[i].ret

C4_Witness ==
  \E i, j \in 1..Len(trace) :
    /\ i < j
    /\ trace[i].op = "recordNominalTypeNode" /\ trace[i].args[4] = "forward"
    /\ trace[j].op = "recordNominalTypeNode" /\ trace[j].args[4] = "definition"
    /\ trace[i].args[1] = trace[j].args[1]
    /\ trace[i].ret = trace[j].ret
    /\ trace[i].out # <<>> /\ trace[j].out = <<>>

Reverse(seq) == [i \in 1..Len(seq) |-> seq[Len(seq) + 1 - i]]

(* C5: the identity of a type application is the constructor's claimed      *)
(* string, "(", the parameters' claimed strings in call order joined by     *)
(* ",", and ")"; applications of one constructor to [a,b] and to [b,a],     *)
(* a and b of different claimed identities, are different nodes.            *)
C5_TappOrderSensitive ==
  \A i \in 1..Len(trace) :
    (trace[i].op = "recordTappNode" /\ trace[i].ret # NoNode) =>
      LET f == trace[i].args[1]
          ps == trace[i].args[2]
      IN /\ Len(ps) = 2 =>
              trace[i].ret.identity =
                ToClaimedString(f) \o "(" \o ToClaimedString(ps[1]) \o ","
                  \o ToClaimedString(ps[2]) \o ")"
         /\ trace[i].ret.token = type_token_
         /\ \A j \in 1..Len(trace) :
              (/\ trace[j].op = "recordTappNode"
               /\ trace[j].args[1] = f
               /\ Len(ps) = 2
               /\ trace[j].args[2] = Reverse(ps)
               /\ ToClaimedString(ps[1]) # ToClaimedString(ps[2]))
              => trace[j].ret # trace[i].ret

C5_Witness ==
  \E i, j \in 1..Len(trace) :
    /\ trace[i].op = "recordTappNode" /\ trace[j].op = "recordTappNode"
    /\ trace[i].args[2] = <<TappCAB, NodeA>>
    /\ trace[j].args[2] = <<NodeA, TappCAB>>
    /\ trace[i].ret # trace[j].ret

-----------------------------------------------------------------------------
(* Anchors over main.cc and a.h, under every combination of claims. *)

TargetNodes == {NodeId(t, "V#v") : t \in WalkerTokens}
MainRange == PhysicalRange("m3", "m7")
HeaderRange == PhysicalRange("h3", "h3")
WraithRanges == {WraithRange("m3", "m7", n) : n \in TargetNodes}

NextAnchor ==
  \/ CallsLeft /\ \E answer \in BOOLEAN : pushFile(InvalidLoc, "m3", answer)
  \/ CallsLeft /\ \E answer \in BOOLEAN : pushFile("m3", "h3", answer)
  \/ CallsLeft /\ popFile
  \/ CallsLeft /\ \E n \in TargetNodes :
                    recordClaimableRange("recordDefinitionBindingRange", MainRange, n)
  \/ CallsLeft /\ \E n \in TargetNodes, cl \in {"Claimable", "Unclaimable"} :
                    recordDeclUseLocation(HeaderRange, n, cl)
  \/ CallsLeft /\ \E w \in WraithRanges :
                    recordTypeSpellingLocation(w, NodeId(getClaimTokenForLocation("m3"), "V#v"),
                                               "Claimable")
  \/ CallsLeft /\ \E n \in TargetNodes : recordCallEdge(MainRange, NodeA, n)
  \/ CallsLeft /\ \E n \in TargetNodes : recordCompletionRange(MainRange, n, "Completes")
  \/ CallsLeft /\ recordIncludesRange(PhysicalRange("m3", "m3"), "a.h")

SpecAnchor == InitWith(BOOLEAN, BOOLEAN, {"c0"}, {FALSE}) /\ [][NextAnchor]_vars

-----------------------------------------------------------------------------
(* Claim gating of anchors. *)

AnchorOps ==
  {"recordExpandsRange", "recordIndirectlyExpandsRange", "recordUndefinesRange",
   "recordBoundQueryRange", "recordDocumentationRange",
   "recordFullDefinitionRange", "recordDefinitionBindingRange",
   "recordDeclUseLocationInDocumentation", "recordDeclUseLocation",
   "recordTypeSpellingLocation", "recordCompletionRange",
   "recordDefinitionRangeWithBinding", "recordCallEdge", "recordIncludesRange"}

Anchored(range, target, node_claimed, edge_kind, cl) ==
  [range |-> range, target |-> target, node_claimed |-> node_claimed,
   edge_kind |-> edge_kind, cl |-> cl]

AnchoredToNode(range, node, edge_kind, cl) ==
  Anchored(range, VNameRefFromNodeId(node), claimNode(node), edge_kind, cl)

(* The anchors a call asks for: range, target, edge kind and Claimability. *)
AnchorsOf(call) ==
  CASE call.op = "recordDeclUseLocation" \/ call.op = "recordTypeSpellingLocation" ->
         {AnchoredToNode(call.args[1], call.args[2], "ref", call.args[3])}
    [] call.op = "recordCompletionRange" ->
         {AnchoredToNode(call.args[1], call.args[2],
                         IF call.args[3] = "UniquelyCompletes"
                         THEN "completes/uniquely" ELSE "completes",
                         "Unclaimable")}
    [] call.op = "recordDefinitionRangeWithBinding" ->
         {AnchoredToNode(call.args[1], call.args[3], "defines", "Claimable"),
          AnchoredToNode(call.args[2], call.args[3], "defines/binding", "Claimable")}
    [] call.op = "recordCallEdge" ->
         {AnchoredToNode(call.args[1], call.args[2], "childof", "Claimable"),
          AnchoredToNode(call.args[1], call.args[3], "ref/call", "Unclaimable")}
    [] call.op = "recordIncludesRange" ->
         {Anchored(call.args[1], VNameFromFileEntry(call.args[2]), FALSE,
                   "ref/includes", "Claimable")}
    [] OTHER ->
         {AnchoredToNode(call.args[1], call.args[2], ClaimableEdgeKind(call.op),
                         "Claimable")}

(* The last call, when it is an anchor recording that returned. *)
AnchorCallReturned ==
  /\ trace # <<>>
  /\ trace[Len(trace)].op \in AnchorOps
  /\ trace[Len(trace)].ret

Emitted(call, fact) == \E i \in 1..Len(call.out) : call.out[i] = fact

AnchorEdge(a) == AddEdge(VNameFromRange(a.range), a.edge_kind, a.target, NoOrdinal)
AnchorNode(a) == AddNodeKind(VNameFromRange(a.range), "anchor")

(* The file of the range is claimed; the range or the target is claimed. *)
FileClaimed(a) == claimLocation(a.range.Begin)
RangeOrTargetClaimed(a) == claimRange(a.range) \/ a.node_claimed

(* The call found the anchor's (range, edge kind, target) already recorded *)
(* and redundant anchors are dropped.                                      *)
DroppedAsRedundant(call, a) ==
  /\ drop_redundant_wraiths_
  /\ call.op # "recordIncludesRange"
  /\ \E e \in call.edges :
       /\ e.Begin = a.range.Begin /\ e.End = a.range.End
       /\ e.EdgeKind = a.edge_kind
       /\ VNameRefFromNodeId(e.PrimaryAnchoredTo) = a.target

(* C1 as stated: for every anchor-recording call, if the range's file and *)
(* the target node are both unclaimed, neither the anchor node facts nor   *)
(* the edge reach the recorder; if the range or the target is claimed,     *)
(* both do.  The code does not have this property.                         *)
C1_AsStated ==
  AnchorCallReturned =>
    \A a \in AnchorsOf(trace[Len(trace)]) :
      /\ (~FileClaimed(a) /\ ~a.node_claimed) =>
           /\ ~Emitted(trace[Len(trace)], AnchorNode(a))
           /\ ~Emitted(trace[Len(trace)], AnchorEdge(a))
      /\ RangeOrTargetClaimed(a) =>
           /\ Emitted(trace[Len(trace)], AnchorNode(a))
           /\ Emitted(trace[Len(trace)], AnchorEdge(a))

(* C1, amended: for every anchor of an anchor-recording call that is not   *)
(* dropped as redundant, the edge reaches the recorder exactly when the    *)
(* range or the target node is claimed or the anchor is recorded as        *)
(* Unclaimable; the anchor node facts reach it only if some anchor of the  *)
(* call on that range is claimed, and when the anchor is claimed they      *)
(* reach it in this call, unless deferred-nodes mode is active and the     *)
(* range is already in the unit's set of recorded anchors.                 *)
C1_ClaimGating ==
  AnchorCallReturned =>
    \A a \in AnchorsOf(trace[Len(trace)]) :
      ~DroppedAsRedundant(trace[Len(trace)], a) =>
        /\ Emitted(trace[Len(trace)], AnchorEdge(a))
             <=> (RangeOrTargetClaimed(a) \/ a.cl = "Unclaimable")
        /\ Emitted(trace[Len(trace)], AnchorNode(a)) =>
             \E b \in AnchorsOf(trace[Len(trace)]) :
               b.range = a.range /\ RangeOrTargetClaimed(b)
        /\ RangeOrTargetClaimed(a) =>
             \/ Emitted(trace[Len(trace)], AnchorNode(a))
             \/ (trace[Len(trace)].deferring
                 /\ a.range \in trace[Len(trace)].anchors)

(* An Unclaimable anchor over an unclaimed file to an unclaimed node: the  *)
(* edge was recorded without the anchor node.                              *)
C1_Witness ==
  /\ AnchorCallReturned
  /\ \E a \in AnchorsOf(trace[Len(trace)]) :
       /\ a.cl = "Unclaimable"
       /\ ~FileClaimed(a) /\ ~RangeOrTargetClaimed(a)
       /\ Emitted(trace[Len(trace)], AnchorEdge(a))
       /\ ~Emitted(trace[Len(trace)], AnchorNode(a))

-----------------------------------------------------------------------------
(* One compilation unit: main.cc and the header it includes twice, with    *)
(* anchors recorded along the way.                                         *)

UnitCallsLeft == Len(trace) < MaxUnitCalls

MacroRange == PhysicalRange("X1", "X2")

NextUnit ==
  \/ UnitCallsLeft /\ \E answer \in BOOLEAN : pushFile(InvalidLoc, "m3", answer)
  \/ UnitCallsLeft /\ pushFile("m3", "h3", TRUE)
  \/ UnitCallsLeft /\ pushFile("m7", "g3", TRUE)
  \/ UnitCallsLeft /\ popFile
  \/ UnitCallsLeft /\ recordDeclUseLocation(MainRange, NodeA, "Claimable")
  \/ UnitCallsLeft /\ recordClaimableRange("recordFullDefinitionRange",
                                           MacroRange, NodeA)
  \/ UnitCallsLeft /\ AppendRangeToStreamCall(MacroRange)

SpecUnit == InitWith({TRUE}, {FALSE}, {"c0"}, {FALSE}) /\ [][NextUnit]_vars

IsPush(call) == call.op = "pushFile"
IsPop(call) == call.op = "popFile"

(* C6: after a well-nested run of N >= 1 pushFile and N popFile calls,     *)
(* with any recordings in between, the file-state stack is empty and the   *)
(* unit's set of recorded anchor ranges is empty.                          *)
C6_PushPopNesting ==
  (/\ trace # <<>>
   /\ ~fatal
   /\ IsPop(trace[Len(trace)])
   /\ Count(trace, IsPush) = Count(trace, IsPop))
  => (file_stack_ = <<>> /\ deferred_anchors_ = {})

(* Two pushes, an anchor recorded under them, two pops: the last pop found *)
(* a recorded range and left none.                                         *)
C6_Witness ==
  /\ trace # <<>>
  /\ ~fatal
  /\ IsPop(trace[Len(trace)])
  /\ Count(trace, IsPush) = 2
  /\ Count(trace, IsPop) = 2
  /\ trace[Len(trace)].anchors # {}
  /\ file_stack_ = <<>>
  /\ deferred_anchors_ = {}

-----------------------------------------------------------------------------
(* Determinism of range resolution. *)

(* The names under which a call recorded the edge of its anchor a. *)
AnchorNames(call, a) ==
  {call.out[k].src : k \in {n \in 1..Len(call.out) :
                              /\ call.out[n].f = "edge"
                              /\ call.out[n].kind = a.edge_kind
                              /\ call.out[n].dst = a.target}}

AnchorCalls == {i \in 1..Len(trace) : trace[i].op \in AnchorOps}
StreamCalls == {i \in 1..Len(trace) : trace[i].op = "AppendRangeToStream"}

(* C7: two resolutions of Ranges with the same kind, begin, end and        *)
(* context give the same name, whatever was recorded, pushed or popped     *)
(* between them, and the same as resolving the Range again now.            *)
C7_RangeResolutionDeterministic ==
  /\ \A i \in StreamCalls, j \in StreamCalls :
       trace[i].args = trace[j].args =>
         /\ trace[i].ret = trace[j].ret
         /\ trace[i].ret = AppendRangeToStream(trace[i].args[1])
  /\ \A i \in AnchorCalls, j \in AnchorCalls :
     \A a \in AnchorsOf(trace[i]), b \in AnchorsOf(trace[j]) :
      a.range = b.range =>
        \A x \in AnchorNames(trace[i], a), y \in AnchorNames(trace[j], b) :
          /\ x = y
          /\ x.signature = VNameFromRange(a.range).signature

(* The same Range was resolved before and after a push or a pop. *)
C7_Witness ==
  \E i \in AnchorCalls, j \in AnchorCalls :
    /\ i < j
    /\ \E k \in (i + 1)..(j - 1) : IsPush(trace[k]) \/ IsPop(trace[k])
    /\ \E a \in AnchorsOf(trace[i]), b \in AnchorsOf(trace[j]) :
         /\ a.range = b.range
         /\ AnchorNames(trace[i], a) # {}
         /\ AnchorNames(trace[j], b) # {}

-----------------------------------------------------------------------------
(* File VNames under preprocessor contexts. *)

(* The pushes that found a file, by position in the trace. *)
FilePushes == {i \in 1..Len(trace) : IsPush(trace[i]) /\ trace[i].ret.uid # NoUid}

(* C9: the VName of a pushed file is its base VName with the resolved      *)
(* context prefixed to the signature, so two pushes of the same file have  *)
(* the same VName only if they resolved the same context.                  *)
C9_ContextVNames ==
  \A i \in FilePushes :
    /\ trace[i].ret.vname.signature =
         trace[i].ret.context \o trace[i].ret.base_vname.signature
    /\ \A j \in FilePushes :
         (trace[i].ret.uid = trace[j].ret.uid
          /\ trace[i].ret.context # trace[j].ret.context)
         => trace[i].ret.vname # trace[j].ret.vname

(* a.h was pushed under two different non-empty contexts. *)
C9_Witness ==
  \E i \in FilePushes, j \in FilePushes :
    /\ trace[i].ret.uid = trace[j].ret.uid
    /\ trace[i].ret.context # ""
    /\ trace[j].ret.context # ""
    /\ trace[i].ret.context # trace[j].ret.context
    /\ trace[i].ret.vname # trace[j].ret.vname

-----------------------------------------------------------------------------
(* Ranges in macro expansions. *)

MacroLocs == {"X1", "X2", "X3"}

NextRanges ==
  \/ CallsLeft /\ \E answer \in BOOLEAN : pushFile(InvalidLoc, "m3", answer)
  \/ CallsLeft /\ popFile
  \/ CallsLeft /\ \E x \in MacroLocs :
                    recordDeclUseLocation(PhysicalRange(x, x), NodeA, "Claimable")
  \/ CallsLeft /\ \E x \in MacroLocs : AppendRangeToStreamCall(PhysicalRange(x, x))

SpecRanges == InitWith(BOOLEAN, {FALSE}, {"c0"}, {FALSE}) /\ [][NextRanges]_vars

(* The chain of expansions a location came through, innermost first. *)
RECURSIVE ExpansionHistory(_)
ExpansionHistory(l) ==
  IF isFileID(l) THEN <<l>> ELSE <<l>> \o ExpansionHistory(LocTable(l).exp)

(* A range both of whose ends are the macro id it begins at. *)
MacroRanged(range) ==
  range.Kind = "Physical" /\ isMacroID(range.Begin) /\ range.End = range.Begin

(* File and offset of the location a macro id is expanded at, and of the   *)
(* one it is spelled at.                                                   *)
ExpansionSite(l) ==
  <<getFileID(getExpansionLoc(l)), getFileOffset(getExpansionLoc(l))>>
SpellingSite(l) ==
  <<getFileID(getSpellingLoc(l)), getFileOffset(getSpellingLoc(l))>>

-----------------------------------------------------------------------------
(* Builtin types and the rendering of their signatures. *)

RequestedSpellings == {"int", "ptr", "const", "fn", "__float128"}
RenderedSpellings == {"ptr", "const", "fnvararg"}
ParameterTrees ==
  {<<IdentifierSource("int")>>,
   <<IdentifierSource("int"), IdentifierSource("char")>>}

NextBuiltins ==
  \/ CallsLeft /\ \E spelling \in RequestedSpellings :
                    getNodeIdForBuiltinType(spelling)
  \/ CallsLeft /\ \E spelling \in RenderedSpellings, params \in ParameterTrees :
                    RenderBuiltin(spelling, params)

SpecBuiltins == InitWith({TRUE}, {FALSE}, {""}, BOOLEAN) /\ [][NextBuiltins]_vars

(* The renderings of ptr with the one parameter int. *)
PtrOfInt ==
  {i \in 1..Len(trace) :
     /\ trace[i].op = "Render"
     /\ trace[i].args = <<"ptr", <<IdentifierSource("int")>> >>}

(* C10 as stated: ptr rendered with the parameter int yields "*int".  The  *)
(* code does not have this property.                                       *)
C10_AsStated == \A i \in PtrOfInt : trace[i].ret = "*int"

(* C10, amended: the tree registered under ptr is the lookup of parameter  *)
(* 1 followed by the identifier "*", and rendered with the parameter int   *)
(* it yields "int*": the substituted parameter first, the text second.     *)
C10_PtrRendersParameterFirst ==
  /\ builtins_["ptr"].marked_source.child
       = <<LookupByParam(1), IdentifierSource("*")>>
  /\ \A i \in PtrOfInt : trace[i].ret = "int*"

(* ptr was rendered with the parameter int. *)
C10_Witness == \E i \in PtrOfInt : trace[i].ret = "int*"

-----------------------------------------------------------------------------
(* Files pushed and popped, under two starting contexts: main.cc, a.h or   *)
(* b.inc entered first, then a.h or b.inc entered from a location of the   *)
(* file above.                                                             *)

NextFiles ==
  \/ CallsLeft /\ pushFile(InvalidLoc, "m3", TRUE)
  \/ CallsLeft /\ \E claim_answer \in BOOLEAN : pushFile(InvalidLoc, "h3", claim_answer)
  \/ CallsLeft /\ pushFile(InvalidLoc, "i1", TRUE)
  \/ CallsLeft /\ \E blame \in {"m3", "h1", "h3", "i1"} : \E claim_answer \in BOOLEAN :
                    pushFile(blame, "g3", claim_answer)
  \/ CallsLeft /\ \E blame \in {"m3", "h1", "h3", "i1"} : pushFile(blame, "i1", TRUE)
  \/ CallsLeft /\ popFile

SpecFiles == InitWith({TRUE}, {FALSE}, {"c0", "cA"}, {FALSE}) /\ [][NextFiles]_vars

(* The pushes of a file entity, and those the claim service granted. *)
PushedEntity(call, entry) == call.op = "pushFile" /\ call.ret.uid = entry
ClaimedPush(call, entry) == PushedEntity(call, entry) /\ call.ret.claimed

(* How often the content of a file entity was passed to the recorder. *)
ContentCount(entry) ==
  Count(Recorded, LAMBDA f : f.f = "file" /\ f.src = VNameFromFileEntry(entry))

PushedEntries == {"main.cc", "a.h", "b.inc"}

(* C11 as stated: the content of every file entity pushed at least once    *)
(* with a granted claim is passed to the recorder exactly once, and that   *)
(* of an entity never pushed with a granted claim is never passed.         *)
C11_AsStated ==
  \A entry \in PushedEntries :
    ContentCount(entry) =
      IF \E i \in 1..Len(trace) : ClaimedPush(trace[i], entry) THEN 1 ELSE 0

(* C11: the content of a file entity is passed to the recorder at most     *)
(* once in a run; exactly once when the entity was pushed at least once    *)
(* with a granted claim and its buffer can be read (whatever the number of *)
(* pushes and their contexts); never when all its pushes were refused or   *)
(* its buffer cannot be read.                                              *)
C11_FileContentOnce ==
  \A entry \in PushedEntries :
    ContentCount(entry) =
      IF entry # "b.inc" /\ \E i \in 1..Len(trace) : ClaimedPush(trace[i], entry)
      THEN 1 ELSE 0

(* a.h pushed twice with a granted claim, under two different contexts,    *)
(* its content passed once, by the first push.                             *)
C11_Witness ==
  /\ Len(trace) = 2
  /\ \A i \in 1..2 : ClaimedPush(trace[i], "a.h")
  /\ trace[1].ret.context # trace[2].ret.context
  /\ trace[1].ret.vname # trace[2].ret.vname
  /\ Len(trace[1].out) = 1 /\ trace[2].out = <<>>
  /\ ContentCount("a.h") = 1

-----------------------------------------------------------------------------
(* Properties of the builtin table. *)

(* The requests for a spelling that returned a node. *)
BuiltinRequests(spelling) ==
  {i \in 1..Len(trace) :
     /\ trace[i].op = "getNodeIdForBuiltinType"
     /\ trace[i].args = <<spelling>>
     /\ trace[i].ret # NoNode}

BuiltinNodeId(spelling) == NodeId(default_token_, spelling \o "#builtin")

(* How often a fact of the given form about the builtin of a spelling was  *)
(* passed to the recorder.                                                 *)
BuiltinFactCount(spelling, form) ==
  Count(Recorded,
        LAMBDA f : /\ f.f = form
                   /\ f.src = VNameRefFromNodeId(BuiltinNodeId(spelling))
                   /\ (form = "property" => f.value = "builtin"))

(* C12: over any sequence of getNodeIdForBuiltinType calls, the node kind  *)
(* builtin and the signature tree of each spelling are passed to the       *)
(* recorder at most once, exactly once if the spelling was requested at    *)
(* least once, and every request for a spelling returns the NodeId         *)
(* "<spelling>#builtin".                                                   *)
C12_BuiltinEmittedOnce ==
  \A spelling \in RequestedSpellings :
    /\ BuiltinFactCount(spelling, "property")
         = (IF BuiltinRequests(spelling) # {} THEN 1 ELSE 0)
    /\ BuiltinFactCount(spelling, "code")
         = (IF BuiltinRequests(spelling) # {} THEN 1 ELSE 0)
    /\ \A i \in BuiltinRequests(spelling) : trace[i].ret = BuiltinNodeId(spelling)

(* ptr requested three times: the first request passes its two facts, the  *)
(* other two pass nothing and return the same node.                        *)
C12_Witness ==
  /\ BuiltinRequests("ptr") = {1, 2, 3}
  /\ Len(trace[1].out) = 2 /\ trace[2].out = <<>> /\ trace[3].out = <<>>
  /\ trace[3].ret = trace[1].ret

(* The requests for a spelling, answered or not. *)
AllBuiltinRequests(spelling) ==
  {i \in 1..Len(trace) :
     /\ trace[i].op = "getNodeIdForBuiltinType"
     /\ trace[i].args = <<spelling>>}

MissingSpelling == "__float128"

(* C13: a request for a spelling that is not registered is fatal in strict *)
(* mode: it passes nothing, returns no node and nothing runs after it.  In *)
(* lenient mode the first such request reports the spelling, passes the    *)
(* node kind and an identifier tree with the spelling as its text, and     *)
(* stores the entry as emitted; every later request returns the same       *)
(* NodeId, passes nothing and reports nothing, as a request for an emitted *)
(* registered builtin does.                                                *)
C13_MissingBuiltin ==
  LET requests == AllBuiltinRequests(MissingSpelling)
      first == CHOOSE i \in requests : \A j \in requests : i <= j
  IN requests # {} =>
       IF FLAGS_fail_on_unimplemented_builtin
       THEN /\ requests = {Len(trace)}
            /\ fatal
            /\ trace[first].ret = NoNode
            /\ trace[first].out = <<>>
            /\ MissingSpelling \notin DOMAIN builtins_
       ELSE /\ ~fatal
            /\ trace[first].log = <<"Missing builtin " \o MissingSpelling>>
            /\ trace[first].out =
                 << AddNodeKind(VNameRefFromNodeId(BuiltinNodeId(MissingSpelling)),
                                "builtin") >>
                 \o AddMarkedSource(
                      VNameRefFromNodeId(BuiltinNodeId(MissingSpelling)),
                      MarkedSourceText(IdentifierSource(MissingSpelling)))
            /\ MissingSpelling \in DOMAIN builtins_
            /\ builtins_[MissingSpelling] =
                 Builtin(MissingSpelling, IdentifierSource(MissingSpelling), TRUE)
            /\ \A i \in requests :
                 /\ trace[i].ret = BuiltinNodeId(MissingSpelling)
                 /\ i # first => trace[i].out = <<>> /\ trace[i].log = <<>>

(* Lenient mode: the missing spelling requested twice after a registered   *)
(* one that was already emitted; the second request behaves as the         *)
(* request for the registered one does.                                    *)
C13_Witness ==
  /\ ~FLAGS_fail_on_unimplemented_builtin
  /\ Len(trace) = 3
  /\ AllBuiltinRequests(MissingSpelling) = {1, 2}
  /\ AllBuiltinRequests("int") = {3}
  /\ trace[1].log # <<>> /\ Len(trace[1].out) = 2
  /\ trace[2].out = <<>> /\ trace[2].log = <<>>

(* Strict mode: the missing spelling was requested and the run stopped. *)
C13_WitnessStrict ==
  /\ FLAGS_fail_on_unimplemented_builtin
  /\ AllBuiltinRequests(MissingSpelling) = {2}
  /\ fatal

-----------------------------------------------------------------------------
(* Properties of the context resolution of pushFile. *)

(* The push that entered the file on top of the stack when call i was      *)
(* made: the latest earlier push made one level below.                     *)
ParentPush(i) ==
  CHOOSE j \in 1..(i - 1) :
    /\ IsPush(trace[j]) /\ trace[j].depth = trace[i].depth - 1
    /\ \A k \in (j + 1)..(i - 1) :
         ~(IsPush(trace[k]) /\ trace[k].depth = trace[i].depth - 1)

(* The nested pushes whose context lookup missed at some level. *)
MissedLookups ==
  {i \in 1..Len(trace) :
     IsPush(trace[i]) /\ trace[i].depth > 0 /\ trace[i].log # <<>>}

(* C14: when pushFile pushes a nested file and the lookup in the context   *)
(* table misses (no entry for the parent file, for the parent's context or *)
(* for the blame offset), the new FileState's context equals the parent    *)
(* FileState's context, a warning is written and the push completes.  The  *)
(* code does not have this property: it leaves the context empty.          *)
C14_ContextKeptOnMiss ==
  \A i \in MissedLookups :
    /\ trace[i].ret.context = trace[ParentPush(i)].ret.context
    /\ Len(trace[i].log) = 1
    /\ ~fatal

(* What the code does on a miss: one warning, the push completes, and the  *)
(* new context is empty whatever the parent's is.                          *)
C14_ContextEmptyOnMiss ==
  \A i \in MissedLookups :
    /\ trace[i].ret.context = ""
    /\ trace[ParentPush(i)].ret.context # ""
    /\ Len(trace[i].log) = 1
    /\ ~fatal

(* The three kinds of miss have happened. *)
C14_WitnessPath == \E i \in MissedLookups : trace[i].log = <<"missing source path">>
C14_WitnessContext == \E i \in MissedLookups : trace[i].log = <<"missing source context">>
C14_WitnessOffset == \E i \in MissedLookups : trace[i].log = <<"missing source offset">>

-----------------------------------------------------------------------------
(* Anchors and stream texts of ranges that cannot be located: an invalid   *)
(* position, and a position in a buffer without a file entry.              *)

InvalidRange == PhysicalRange(InvalidLoc, InvalidLoc)
BuiltinRange == PhysicalRange("bi", "bi")
UnlocatedRanges ==
  {InvalidRange, BuiltinRange, MainRange, PhysicalRange("bi", InvalidLoc),
   WraithRange("bi", "bi", NodeB), WraithRange(InvalidLoc, InvalidLoc, NodeA),
   ImplicitRange(NodeA)}

NextLocations ==
  \/ CallsLeft /\ \E answer \in BOOLEAN : pushFile(InvalidLoc, "m3", answer)
  \/ CallsLeft /\ pushFile("m3", "bi", TRUE)
  \/ CallsLeft /\ popFile
  \/ CallsLeft /\ \E r \in UnlocatedRanges, n \in {NodeA, NodeB} :
                    recordDeclUseLocation(r, n, "Claimable")
  \/ CallsLeft /\ \E r \in {InvalidRange, BuiltinRange} :
                    recordIncludesRange(r, "a.h")
  \/ CallsLeft /\ \E r \in UnlocatedRanges : AppendRangeToStreamCall(r)

SpecLocations == InitWith({FALSE}, {FALSE}, {"c0"}, {FALSE}) /\ [][NextLocations]_vars

(* The anchor recordings made with a file on the stack over a range that   *)
(* has positions, and among them those whose begin is invalid and those    *)
(* whose begin has no file entry behind it.                                *)
LocatedAnchorCalls ==
  {i \in 1..Len(trace) :
     /\ trace[i].op \in {"recordDeclUseLocation", "recordIncludesRange"}
     /\ trace[i].depth > 0
     /\ trace[i].args[1].Kind # "Implicit"}
InvalidBegin(i) == ~isValid(trace[i].args[1].Begin)
NoFileBehind(i) ==
  /\ isValid(trace[i].args[1].Begin)
  /\ SearchForFileEntry(trace[i].args[1].Begin) = NoEntry

(* C15 as stated: recording an anchor for a non-implicit range whose begin *)
(* is invalid, or whose positions have no file entity behind them, returns *)
(* normally.  The code does not have this property.                        *)
C15_AsStated ==
  \A i \in LocatedAnchorCalls : InvalidBegin(i) \/ NoFileBehind(i) => trace[i].ret

(* C15: recording an anchor for a non-implicit range whose begin is valid  *)
(* but has no file entity behind it returns normally, and what it passes   *)
(* is named by the offsets alone (for a Physical range the signature       *)
(* "@begin:end" under an empty corpus, root and path); recording one for a *)
(* non-implicit range whose begin is invalid fails the check of            *)
(* VNameFromRange and passes nothing.  Writing any range to a stream,      *)
(* an invalid position as "invalid", never fails.                          *)
C15_UnresolvableLocations ==
  /\ \A i \in LocatedAnchorCalls :
       /\ InvalidBegin(i) => ~trace[i].ret /\ trace[i].out = <<>>
       /\ NoFileBehind(i) =>
            /\ trace[i].ret
            /\ \A k \in 1..Len(trace[i].out) :
                 /\ trace[i].out[k].src = VNameFromRange(trace[i].args[1])
                 /\ trace[i].args[1].Kind = "Physical" =>
                      trace[i].out[k].src = VName("@0:0", "", "", "", kIndexerLang)
  /\ \A i \in 1..Len(trace) :
       trace[i].op = "AppendRangeToStream" =>
         /\ (i = Len(trace) => ~fatal)
         /\ (trace[i].args[1] = InvalidRange => trace[i].ret = "invalid")

(* With main.cc on the stack, an anchor over the builtin buffer returned   *)
(* having passed its facts, and the next one, over an invalid range,       *)
(* stopped the run.                                                        *)
C15_Witness ==
  /\ Len(trace) = 3
  /\ LocatedAnchorCalls = {2, 3}
  /\ NoFileBehind(2) /\ trace[2].ret /\ trace[2].out # <<>>
  /\ InvalidBegin(3) /\ ~trace[3].ret
  /\ fatal

-----------------------------------------------------------------------------
(* Metadata overlays of main.cc and definitions recorded over it. *)

MaxMetaCalls == 4
MetaCallsLeft == Len(trace) < MaxMetaCalls

GeneratedV1 == VName("gen1", "k", "", "x.proto", "")
GeneratedV2 == VName("gen2", "k", "", "x.proto", "")

(* Rules over the bytes 3..7 of main.cc: one forward, one with an edge     *)
(* kind nobody knows, one reversed, one over other bytes and one for       *)
(* another inbound edge.                                                   *)
OverlayA ==
  << Rule(3, 7, "/kythe/edge/defines/binding", "generates", GeneratedV1, FALSE),
     Rule(3, 7, "/kythe/edge/defines/binding", "bogus", GeneratedV2, FALSE),
     Rule(3, 7, "/kythe/edge/defines", "childof", GeneratedV2, TRUE),
     Rule(3, 9, "/kythe/edge/defines/binding", "generates", GeneratedV2, FALSE),
     Rule(3, 7, "/kythe/edge/ref", "ref", GeneratedV1, FALSE) >>
OverlayB ==
  << Rule(3, 7, "/kythe/edge/defines/binding", "ref", GeneratedV1, TRUE) >>

NextMeta ==
  \/ MetaCallsLeft /\ \E answer \in BOOLEAN : pushFile(InvalidLoc, "m3", answer)
  \/ MetaCallsLeft /\ applyMetadataFile(1, "main.cc", TRUE, OverlayA)
  \/ MetaCallsLeft /\ \E parsed \in BOOLEAN :
                        applyMetadataFile(1, "main.cc", parsed, OverlayB)
  \/ MetaCallsLeft /\ applyMetadataFile(4, "b.inc", TRUE, OverlayA)
  \/ MetaCallsLeft /\ \E n \in {NodeA, NodeB} :
                        recordClaimableRange("recordDefinitionBindingRange", MainRange, n)
  \/ MetaCallsLeft /\ \E r \in {PhysicalRange("m3", "m3"), WraithRange("m3", "m7", NodeA)} :
                        recordClaimableRange("recordDefinitionBindingRange", r, NodeA)
  \/ MetaCallsLeft /\ recordClaimableRange("recordFullDefinitionRange", MainRange, NodeA)
  \/ MetaCallsLeft /\ recordDefinitionRangeWithBinding(MainRange, MainRange, NodeA)

SpecMeta == InitWith({FALSE}, {FALSE}, {"c0"}, {FALSE}) /\ [][NextMeta]_vars

(* The overlays loaded for a file before call i, in the order loaded. *)
OverlaysBefore(i, fid) ==
  Flatten([j \in 1..(i - 1) |->
             IF trace[j].op = "applyMetadataFile" /\ trace[j].ret
                /\ trace[j].args[1] = fid
             THEN <<trace[j].args[3]>> ELSE <<>>])

RuleMatches(rule, range) ==
  /\ rule.begin = getFileOffset(ExpansionLocIfMacro(range.Begin))
  /\ rule.end = getFileOffset(ExpansionLocIfMacro(range.End))
  /\ rule.edge_in \in {"/kythe/edge/defines", "/kythe/edge/defines/binding"}

RuleEdge(rule, def) ==
  IF rule.reverse_edge THEN AddEdge(rule.vname, rule.edge_out, def, NoOrdinal)
  ELSE AddEdge(def, rule.edge_out, rule.vname, NoOrdinal)

(* One edge for every matching rule with a known outbound kind, overlay by *)
(* overlay and rule by rule.                                               *)
RuleEdgesOf(rules, range, def) ==
  Flatten([k \in 1..Len(rules) |->
             IF RuleMatches(rules[k], range) /\ rules[k].edge_out \in KnownEdgeKinds
             THEN <<RuleEdge(rules[k], def)>> ELSE <<>>])
RuleEdgesBefore(i, range, def) ==
  Flatten([o \in 1..Len(OverlaysBefore(i, getFileID(range.Begin))) |->
             RuleEdgesOf(OverlaysBefore(i, getFileID(range.Begin))[o], range, def)])

(* The edges of a call that no anchor is the source of. *)
HookEdges(call) ==
  SelectSeq(call.out, LAMBDA f : f.f = "edge" /\ f.kind \in KnownEdgeKinds)
EdgePassed(call, kind) ==
  \E k \in 1..Len(call.out) : call.out[k].f = "edge" /\ call.out[k].kind = kind

FullDefinitions ==
  {i \in 1..Len(trace) : trace[i].op = "recordFullDefinitionRange" /\ trace[i].ret}
BindingDefinitions ==
  {i \in 1..Len(trace) : trace[i].op = "recordDefinitionBindingRange" /\ trace[i].ret}
DefinitionsWithBinding ==
  {i \in 1..Len(trace) :
     trace[i].op = "recordDefinitionRangeWithBinding" /\ trace[i].ret}

(* C17 as stated: every anchor recorded with a defines or defines/binding  *)
(* edge gets, for every matching rule of an overlay of its file, one edge  *)
(* of the rule's outbound kind, reversed if the rule says so.  The code    *)
(* does not have this property.                                            *)
C17_AsStated ==
  /\ \A i \in FullDefinitions :
       EdgePassed(trace[i], "defines") =>
         HookEdges(trace[i])
           = RuleEdgesBefore(i, trace[i].args[1], VNameRefFromNodeId(trace[i].args[2]))
  /\ \A i \in BindingDefinitions :
       EdgePassed(trace[i], "defines/binding") =>
         HookEdges(trace[i])
           = RuleEdgesBefore(i, trace[i].args[1], VNameRefFromNodeId(trace[i].args[2]))

(* C17: an anchor whose defines/binding edge is passed to the recorder and *)
(* whose range is Physical gets, for every rule of every overlay loaded    *)
(* for the file of its begin whose begin and end equal the range's         *)
(* resolved offsets, whose inbound kind is defines or defines/binding and  *)
(* whose outbound kind is known, exactly one more edge of the outbound     *)
(* kind: from the definition's target to the rule's VName, or the other    *)
(* way when the rule is reversed.  An anchor with a defines edge, over a   *)
(* Wraith range, or whose edge is not passed gets none.                    *)
C17_MetadataEdges ==
  /\ \A i \in FullDefinitions : HookEdges(trace[i]) = <<>>
  /\ \A i \in BindingDefinitions :
       HookEdges(trace[i])
         = IF EdgePassed(trace[i], "defines/binding")
              /\ trace[i].args[1].Kind = "Physical"
           THEN RuleEdgesBefore(i, trace[i].args[1],
                                VNameRefFromNodeId(trace[i].args[2]))
           ELSE <<>>
  /\ \A i \in DefinitionsWithBinding :
       HookEdges(trace[i])
         = IF EdgePassed(trace[i], "defines/binding")
              /\ trace[i].args[2].Kind = "Physical"
           THEN RuleEdgesBefore(i, trace[i].args[2],
                                VNameRefFromNodeId(trace[i].args[3]))
           ELSE <<>>

(* Both overlays loaded, then a binding over bytes 3..7: three more edges, *)
(* the forward one of the first rule and the two reversed ones.            *)
C17_Witness ==
  /\ Len(trace) = 4
  /\ trace[2].args = <<1, "main.cc", OverlayA>>
  /\ trace[3].args = <<1, "main.cc", OverlayB>>
  /\ BindingDefinitions = {4}
  /\ HookEdges(trace[4])
       = << AddEdge(VNameRefFromNodeId(NodeA), "generates", GeneratedV1, NoOrdinal),
            AddEdge(GeneratedV2, "childof", VNameRefFromNodeId(NodeA), NoOrdinal),
            AddEdge(GeneratedV1, "ref", VNameRefFromNodeId(NodeA), NoOrdinal) >>

(* What one anchor passes to the recorder when no overlay is looked at. *)
PlainAnchorOut(range, edge_kind, node) ==
  AddEdgeIf(AnchorClaimed(range, node),
            RecordRangeIf(AnchorClaimed(range, node), AnchorState,
                          VNameFromRange(range), range),
            AddEdge(VNameFromRange(range), edge_kind, VNameRefFromNodeId(node),
                    NoOrdinal)).out

(* The reports owed for the matching rules whose outbound kind is unknown. *)
UnknownKindsOf(rules, range) ==
  Flatten([k \in 1..Len(rules) |->
             IF RuleMatches(rules[k], range) /\ rules[k].edge_out \notin KnownEdgeKinds
             THEN <<"Unknown edge kind " \o rules[k].edge_out \o " from metadata">>
             ELSE <<>>])
UnknownKindsBefore(i, range) ==
  Flatten([o \in 1..Len(OverlaysBefore(i, getFileID(range.Begin))) |->
             UnknownKindsOf(OverlaysBefore(i, getFileID(range.Begin))[o], range)])

NewCall == trace'[Len(trace')]
BindingStep ==
  /\ Len(trace') = Len(trace) + 1
  /\ NewCall.op = "recordDefinitionBindingRange"
  /\ file_stack_ # <<>>
NotHookEdge(f) == ~(f.f = "edge" /\ f.kind \in KnownEdgeKinds)

(* C18: a definition binding recorded with a file on the stack is never    *)
(* fatal, whatever the overlays hold.  Every matching rule with an unknown *)
(* outbound kind is reported once and adds no edge, while the other        *)
(* matching rules of the same overlay and of the other overlays of the     *)
(* file still add theirs.  Apart from the rule edges the anchor passes on  *)
(* exactly what it passes on without an overlay, and an anchor no rule     *)
(* matches passes on nothing else and reports nothing.                     *)
C18_UnknownEdgeKind ==
  [][BindingStep =>
       /\ ~fatal' /\ NewCall.ret
       /\ SelectSeq(NewCall.out, NotHookEdge)
            = PlainAnchorOut(NewCall.args[1], "defines/binding", NewCall.args[2])
       /\ IF EdgePassed(NewCall, "defines/binding")
             /\ NewCall.args[1].Kind = "Physical"
          THEN /\ NewCall.log = UnknownKindsBefore(Len(trace'), NewCall.args[1])
               /\ HookEdges(NewCall)
                    = RuleEdgesBefore(Len(trace'), NewCall.args[1],
                                      VNameRefFromNodeId(NewCall.args[2]))
          ELSE NewCall.log = <<>> /\ HookEdges(NewCall) = <<>>]_vars

(* OverlayA and OverlayB loaded, then a binding over bytes 3..7: the bogus *)
(* kind is reported, the call returns, and the rule after the bogus one    *)
(* and the rule of the other overlay have added their edges.               *)
C18_Witness ==
  /\ ~fatal
  /\ Len(trace) = 4
  /\ trace[2].args = <<1, "main.cc", OverlayA>>
  /\ trace[3].args = <<1, "main.cc", OverlayB>>
  /\ trace[4].op = "recordDefinitionBindingRange" /\ trace[4].ret
  /\ trace[4].log = <<"Unknown edge kind bogus from metadata">>
  /\ Len(HookEdges(trace[4])) = 3
  /\ EdgePassed(trace[4], "defines/binding")

(* A binding over byte 3 alone, which no rule matches, with OverlayA       *)
(* loaded: the anchor and its edge, and nothing more.                      *)
C18_WitnessUnmatched ==
  /\ ~fatal
  /\ Len(trace) = 3
  /\ trace[2].args = <<1, "main.cc", OverlayA>>
  /\ trace[3].op = "recordDefinitionBindingRange"
  /\ trace[3].args[1] = PhysicalRange("m3", "m3")
  /\ EdgePassed(trace[3], "defines/binding")
  /\ HookEdges(trace[3]) = <<>> /\ trace[3].log = <<>>

-----------------------------------------------------------------------------
(* The stack checks of RecordAnchor and popFile. *)

ObserverState ==
  <<file_stack_, deferred_anchors_, range_edges_, written_namespaces_,
    written_types_, written_docs_, recorded_files_, claim_checked_files_,
    claimed_file_specific_tokens_, transitively_reached_through_header_,
    main_source_file_, builtins_, meta_, deferring_nodes_>>

StackStep ==
  /\ Len(trace') = Len(trace) + 1
  /\ NewCall.op \in AnchorOps \cup {"popFile"}

(* C19: a call that records an anchor, and popFile, made with no file on   *)
(* the stack stops at the fatal check with nothing passed to the recorder, *)
(* nothing reported and the observer's state as it was; made with a file   *)
(* on the stack it returns.                                                *)
C19_StackChecks ==
  [][StackStep =>
       IF file_stack_ = <<>>
       THEN /\ fatal' /\ ~NewCall.ret
            /\ NewCall.out = <<>> /\ NewCall.log = <<>> /\ NewCall.claims = <<>>
            /\ UNCHANGED ObserverState
       ELSE ~fatal' /\ NewCall.ret]_vars

(* main.cc pushed and popped, then a call edge recorded with no file on    *)
(* the stack while redundant anchors are dropped.                          *)
C19_Witness ==
  /\ fatal /\ drop_redundant_wraiths_
  /\ Len(trace) = 3
  /\ trace[1].op = "pushFile" /\ trace[2].op = "popFile" /\ trace[2].ret
  /\ trace[3].op = "recordCallEdge" /\ trace[3].depth = 0 /\ ~trace[3].ret
  /\ range_edges_ = {}

(* popFile with no file on the stack. *)
C19_WitnessPop ==
  /\ fatal
  /\ Len(trace) = 1 /\ trace[1].op = "popFile" /\ ~trace[1].ret

(* An anchor recorded and a file popped with a file on the stack. *)
C19_WitnessReturns ==
  /\ ~fatal
  /\ Len(trace) = 3
  /\ trace[2].op \in AnchorOps /\ trace[2].depth = 1 /\ trace[2].ret
  /\ trace[3].op = "popFile" /\ trace[3].ret /\ file_stack_ = <<>>

-----------------------------------------------------------------------------
(* The names of Wraith ranges. *)

(* The anchor a call passed to the recorder as the source of its edges. *)
EdgeSources(call) ==
  {call.out[k].src : k \in {n \in 1..Len(call.out) : call.out[n].f = "edge"}}

SameBounds(r1, r2) == r1.Begin = r2.Begin /\ r1.End = r2.End

WraithCalls ==
  {i \in AnchorCalls : trace[i].args[1].Kind = "Wraith" /\ trace[i].out # <<>>}
PhysicalCalls ==
  {i \in AnchorCalls : trace[i].args[1].Kind = "Physical" /\ trace[i].out # <<>>}

(* C20: the anchors of two Wraith ranges with the same bounds whose        *)
(* contexts have different claimed strings have different signatures, and  *)
(* the anchor of a Wraith range has another signature than the anchor of   *)
(* the Physical range with the same bounds.                                *)
C20_WraithSignatures ==
  /\ \A i \in WraithCalls :
       EdgeSources(trace[i]) = {VNameFromRange(trace[i].args[1])}
  /\ \A i \in WraithCalls, j \in WraithCalls :
       (SameBounds(trace[i].args[1], trace[j].args[1])
        /\ ToClaimedString(trace[i].args[1].Context)
             # ToClaimedString(trace[j].args[1].Context))
       => \A a \in EdgeSources(trace[i]), b \in EdgeSources(trace[j]) :
            a.signature # b.signature
  /\ \A i \in WraithCalls, j \in PhysicalCalls :
       SameBounds(trace[i].args[1], trace[j].args[1])
       => \A a \in EdgeSources(trace[i]), b \in EdgeSources(trace[j]) :
            a.signature # b.signature

(* main.cc claimed, then the type spelled over bytes 3..7 once in the      *)
(* default context and once in main.cc's, both anchors recorded.           *)
C20_Witness ==
  /\ Len(trace) = 3
  /\ WraithCalls = {2, 3}
  /\ SameBounds(trace[2].args[1], trace[3].args[1])
  /\ ToClaimedString(trace[2].args[1].Context) = "V#v"
  /\ ToClaimedString(trace[3].args[1].Context) = "V#v#k#main.cc"
  /\ EdgeSources(trace[2]) # EdgeSources(trace[3])

(* A definition bound over bytes 3..7 and the type spelled over them. *)
C20_WitnessPhysical ==
  /\ Len(trace) = 3
  /\ PhysicalCalls = {2} /\ WraithCalls = {3}
  /\ trace[2].args[1] = MainRange
  /\ SameBounds(trace[2].args[1], trace[3].args[1])

-----------------------------------------------------------------------------
(* Files pushed more than once, pushes that resolve no file, and anchors   *)
(* to a target nobody claimed.                                             *)

MaxClaimCalls == 4
ClaimCallsLeft == Len(trace) < MaxClaimCalls

NextClaims ==
  \/ ClaimCallsLeft /\ \E answer \in BOOLEAN : pushFile(InvalidLoc, "m3", answer)
  \/ ClaimCallsLeft /\ \E answer \in BOOLEAN : pushFile("m3", "h3", answer)
  \/ ClaimCallsLeft /\ \E source_location \in {InvalidLoc, "bi"} :
                         pushFile("m3", source_location, TRUE)
  \/ ClaimCallsLeft /\ pushFile(InvalidLoc, "h3", TRUE)
  \/ ClaimCallsLeft /\ popFile
  \/ ClaimCallsLeft /\ \E r \in {MainRange, HeaderRange} :
                         recordDeclUseLocation(r, NodeB, "Claimable")

SpecClaims == InitWith({FALSE}, {FALSE}, {"c0"}, {FALSE}) /\ [][NextClaims]_vars

(* Whether pushFile finds a file entity behind a location. *)
ResolvesFile(source_location) ==
  /\ isValid(source_location)
  /\ getFileID(ExpansionLocIfMacro(source_location)) # InvalidFileID
  /\ getFileEntryForID(getFileID(ExpansionLocIfMacro(source_location))) # NoEntry

(* The boolean cached for the file a range begins in: false when none is. *)
CachedClaim(range) ==
  /\ getFileID(ExpansionLocIfMacro(range.Begin)) \in DOMAIN claim_checked_files_
  /\ claim_checked_files_[getFileID(ExpansionLocIfMacro(range.Begin))].rough_claimed

UnclaimedTargetStep ==
  /\ Len(trace') = Len(trace) + 1
  /\ NewCall.op = "recordDeclUseLocation"
  /\ file_stack_ # <<>>
  /\ NewCall.args[1].Kind = "Physical" /\ isValid(NewCall.args[1].Begin)
  /\ ~claimNode(NewCall.args[2]) /\ NewCall.args[3] = "Claimable"

(* C21: every pushFile that resolves a file entity asks the claim service  *)
(* exactly once and a pushFile that resolves none never asks; no anchor    *)
(* call asks, and an anchor that only its file can claim is recorded iff   *)
(* the boolean cached for the file id of its begin is true; the boolean    *)
(* cached for a file id never changes once it is stored.                   *)
C21_ClaimCachedPerFile ==
  [][/\ Len(trace') = Len(trace) + 1 =>
          Len(NewCall.claims)
            = IF NewCall.op = "pushFile" /\ ResolvesFile(NewCall.args[2])
              THEN 1 ELSE 0
     /\ UnclaimedTargetStep =>
          (NewCall.out # <<>>) = CachedClaim(NewCall.args[1])
     /\ \A f \in DOMAIN claim_checked_files_ :
          /\ f \in DOMAIN claim_checked_files_'
          /\ claim_checked_files_'[f].rough_claimed
               = claim_checked_files_[f].rough_claimed]_vars

(* main.cc pushed and claimed, popped, pushed again with the claim         *)
(* refused, then an anchor in it: recorded, on the first answer.           *)
C21_Witness ==
  /\ Len(trace) = 4
  /\ trace[1].op = "pushFile" /\ trace[1].ret.claimed /\ Len(trace[1].claims) = 1
  /\ trace[2].op = "popFile"
  /\ trace[3].op = "pushFile" /\ ~trace[3].ret.claimed /\ Len(trace[3].claims) = 1
  /\ trace[3].args = trace[1].args
  /\ trace[4].op = "recordDeclUseLocation" /\ trace[4].args[1] = MainRange
  /\ trace[4].out # <<>> /\ trace[4].claims = <<>>
  /\ claim_checked_files_[1].rough_claimed

-----------------------------------------------------------------------------
(* Documentation, namespaces and types over two compilation units. *)

MaxDocCalls == 5
DocCallsLeft == Len(trace) < MaxDocCalls

DocLinks == {<<NodeA, NodeB>>, <<NodeB, NodeA>>}

NextDocs ==
  \/ DocCallsLeft /\ pushFile(InvalidLoc, "m3", TRUE)
  \/ DocCallsLeft /\ popFile
  \/ DocCallsLeft /\ recordNamespaceNode(NodeA, NoMarkedSource)
  \/ DocCallsLeft /\ recordNominalTypeNode("C#c", NoMarkedSource, NoNode, "forward")
  \/ DocCallsLeft /\ \E n \in {NodeA, NodeB}, links \in DocLinks :
                       recordDocumentationText(n, "doc", links)

SpecDocs == InitWith({TRUE}, {FALSE}, {"c0"}, {FALSE}) /\ [][NextDocs]_vars

DocCalls == {i \in 1..Len(trace) : trace[i].op = "recordDocumentationText"}

(* The doc node a call names: the forced hash of the text and of a comma   *)
(* and a claimed string per link, under the documented node's token.       *)
DocVNameOf(call) ==
  VNameRefFromNodeId(
    NodeId(call.args[1].token,
           CompressString(call.args[2] \o "," \o ToClaimedString(call.args[3][1])
                            \o "," \o ToClaimedString(call.args[3][2]),
                          TRUE)))

DocNodeFacts(call) ==
  << AddNodeKind(DocVNameOf(call), "doc"),
     AddProperty(DocVNameOf(call), "/kythe/text", call.args[2]),
     AddEdge(DocVNameOf(call), "param", VNameRefFromNodeId(call.args[3][1]), 0),
     AddEdge(DocVNameOf(call), "param", VNameRefFromNodeId(call.args[3][2]), 1) >>
DocumentsEdge(call) ==
  AddEdge(DocVNameOf(call), "documents", VNameRefFromNodeId(call.args[1]), NoOrdinal)

FirstOfDoc(i) ==
  \A j \in DocCalls : j < i => DocVNameOf(trace[j]) # DocVNameOf(trace[i])

(* C22: a recordDocumentationText call names the doc node by the forced    *)
(* hash of the doc text followed by a comma and the claimed string of each *)
(* link, under the documented node's claim token.  The first call that     *)
(* names a doc node passes its kind, its text and one param edge per link  *)
(* in order, then the documents edge; every later call naming it passes    *)
(* the documents edge alone.                                               *)
C22_DocumentationText ==
  \A i \in DocCalls :
    trace[i].out
      = (IF FirstOfDoc(i) THEN DocNodeFacts(trace[i]) ELSE <<>>)
        \o << DocumentsEdge(trace[i]) >>

(* The same text and links documented on the same node three times, and    *)
(* the same text with the links in the other order once.                   *)
C22_Witness ==
  /\ DocCalls = {1, 2, 3, 4}
  /\ trace[1].args = trace[2].args /\ trace[2].args = trace[3].args
  /\ trace[4].args[1] = trace[1].args[1] /\ trace[4].args[3] # trace[1].args[3]
  /\ Len(trace[1].out) = 5 /\ Len(trace[2].out) = 1 /\ Len(trace[3].out) = 1
  /\ Len(trace[4].out) = 5
  /\ trace[2].out = trace[3].out

-----------------------------------------------------------------------------
(* Anchor nodes over compilation units. *)

HasAnchorNode(call) ==
  \E k \in 1..Len(call.out) :
    /\ call.out[k].f = "property" /\ call.out[k].kind = "/kythe/node/kind"
    /\ call.out[k].value = "anchor"
HasEdge(call) == \E k \in 1..Len(call.out) : call.out[k].f = "edge"

(* The anchor calls made in deferred-nodes mode whose anchor was claimed. *)
DeferredAnchorCalls ==
  {i \in AnchorCalls : trace[i].ret /\ trace[i].deferring /\ HasEdge(trace[i])}

(* No call from the one after i to j was made with the stack empty. *)
SameUnit(i, j) == \A k \in (i + 1)..j : trace[k].depth > 0

(* C23: in deferred-nodes mode a claimed anchor's node facts are passed to *)
(* the recorder iff no earlier call recorded the same Range since the file *)
(* stack was last empty: at most once per range while files stay on the    *)
(* stack, and again after the stack was emptied and a file pushed.         *)
C23_AnchorsPerUnit ==
  \A j \in DeferredAnchorCalls :
    HasAnchorNode(trace[j])
      <=> ~\E i \in DeferredAnchorCalls :
             i < j /\ trace[i].args[1] = trace[j].args[1] /\ SameUnit(i, j)

(* The same range recorded in main.cc, and again after main.cc was popped  *)
(* and pushed: the anchor node is written both times.                      *)
C23_Witness ==
  /\ Len(trace) = 5
  /\ DeferredAnchorCalls = {2, 5}
  /\ trace[2].args[1] = trace[5].args[1]
  /\ trace[3].op = "popFile" /\ trace[4].op = "pushFile" /\ trace[4].depth = 0
  /\ HasAnchorNode(trace[2]) /\ HasAnchorNode(trace[5])

(* The same range recorded twice with main.cc on the stack: the anchor     *)
(* node is written the first time only.                                    *)
C23_WitnessOnce ==
  /\ DeferredAnchorCalls = {2, 3}
  /\ trace[2].args[1] = trace[3].args[1]
  /\ HasAnchorNode(trace[2]) /\ ~HasAnchorNode(trace[3]) /\ HasEdge(trace[3])

-----------------------------------------------------------------------------
(* What popFile leaves alone. *)

ProcessWideSets ==
  <<written_namespaces_, written_types_, written_docs_, recorded_files_,
    claim_checked_files_, claimed_file_specific_tokens_, builtins_,
    transitively_reached_through_header_, range_edges_>>

(* The node kinds a history passed to the recorder, in order. *)
NodeKindsOf(history) ==
  Flatten([i \in 1..Len(history) |->
             SelectSeq(history[i].out,
                       LAMBDA f : f.f = "property" /\ f.kind = "/kythe/node/kind")])
NoneTwice(seq) ==
  \A a \in 1..Len(seq), b \in 1..Len(seq) : a # b => seq[a] # seq[b]

C24_WitnessDoc ==
  /\ Len(trace) = 5
  /\ trace[2].op = "recordDocumentationText" /\ Len(trace[2].out) = 5
  /\ trace[3].op = "popFile" /\ trace[3].ret /\ trace[4].depth = 0
  /\ trace[5].op = "recordDocumentationText" /\ trace[5].args = trace[2].args
  /\ Len(trace[5].out) = 1

-----------------------------------------------------------------------------
(* Pushes that resolve no file. *)

PushStep == Len(trace') = Len(trace) + 1 /\ NewCall.op = "pushFile"
PopStep ==
  Len(trace') = Len(trace) + 1 /\ NewCall.op = "popFile" /\ file_stack_ # <<>>

AllButStack ==
  <<deferred_anchors_, range_edges_, written_namespaces_, written_types_,
    written_docs_, recorded_files_, claim_checked_files_,
    claimed_file_specific_tokens_, transitively_reached_through_header_,
    main_source_file_, builtins_, meta_, fatal>>

C25_WitnessInvalid ==
  /\ ~fatal
  /\ Len(trace) = 2
  /\ trace[1].op = "pushFile" /\ trace[1].args[2] = InvalidLoc
  /\ trace[1].claims = <<>> /\ trace[1].ret.claimed
  /\ trace[2].op = "popFile" /\ file_stack_ = <<>>
  /\ main_source_file_ = NoMain /\ claim_checked_files_ = << >>

-----------------------------------------------------------------------------
(* The main source file. *)

FilePushCalls == {i \in 1..Len(trace) : trace[i].op = "pushFile"}

(* The pushes made on an empty stack that found a file entity. *)
OutermostFilePushes ==
  {i \in FilePushCalls : trace[i].depth = 0 /\ ResolvesFile(trace[i].args[2])}

MainOf(call) ==
  [set |-> TRUE, loc |-> ExpansionLocIfMacro(call.args[2]),
   fid |-> getFileID(ExpansionLocIfMacro(call.args[2]))]

Least(S) == CHOOSE x \in S : \A y \in S : x <= y
Greatest(S) == CHOOSE x \in S : \A y \in S : y <= x

(* C30 as stated: once a file was pushed on the empty stack, the main      *)
(* source file is the first such file, whatever is pushed later.  The code *)
(* does not have this property.                                            *)
C30_AsStated ==
  OutermostFilePushes # {}
    => main_source_file_ = MainOf(trace[Least(OutermostFilePushes)])

(* C30: the main source file is the file of the latest pushFile that was   *)
(* made on an empty stack and found a file entity, and is unset while      *)
(* there was none; a push on a non-empty stack never changes it.           *)
C30_MainSourceFile ==
  main_source_file_
    = IF OutermostFilePushes = {} THEN NoMain
      ELSE MainOf(trace[Greatest(OutermostFilePushes)])

(* main.cc pushed with a.h inside it, then both popped: the main source   *)
(* file is main.cc throughout.                                             *)
C30_Witness ==
  /\ Len(trace) = 4
  /\ trace[1].args = <<InvalidLoc, "m3">>
  /\ trace[2].op = "pushFile" /\ trace[2].args = <<"m3", "h3">>
  /\ trace[2].depth = 1 /\ trace[3].op = "popFile"
  /\ trace[4].op = "popFile"
  /\ main_source_file_ = [set |-> TRUE, loc |-> "m3", fid |-> 1]

(* main.cc pushed and popped, then a.h pushed on the empty stack. *)
C30_WitnessLater ==
  /\ Len(trace) = 3
  /\ OutermostFilePushes = {1, 3}
  /\ trace[1].args = <<InvalidLoc, "m3">> /\ trace[3].args = <<InvalidLoc, "h3">>
  /\ main_source_file_ = [set |-> TRUE, loc |-> "h3", fid |-> 2]

-----------------------------------------------------------------------------
(* The text-proto parser of ProtoLibrarySupport.cc.  A literal is the       *)
(* sequence of tokens the tokenizer makes of it; token k is one byte wide,  *)
(* is followed by one byte, and the byte after the second token is a       *)
(* newline.                                                                *)

Tok(type, text) == [type |-> type, text |-> text]

(* The message types of proto_parsetextproto.cc: the user-provided methods *)
(* of each record and the record their return type points to.              *)
NoRecord == "<no record>"
NoDecl == [name |-> "", owner |-> "", returns |-> NoRecord]
Accessor(owner, name, returns) == [name |-> name, owner |-> owner, returns |-> returns]
methods(MsgDecl) ==
  CASE MsgDecl = "Outer" -> << Accessor("Outer", "inner", "Inner"),
                               Accessor("Outer", "my_string", "string") >>
    [] MsgDecl = "Inner" -> << Accessor("Inner", "my_int", NoRecord) >>
    [] OTHER -> <<>>

RECURSIVE FirstNamed(_, _)
FirstNamed(Methods, Name) ==
  IF Methods = <<>> THEN NoDecl
  ELSE IF Head(Methods).name = Name THEN Head(Methods)
  ELSE FirstNamed(Tail(Methods), Name)

FindAccessorDeclWithName(MsgDecl, Name) == FirstNamed(methods(MsgDecl), Name)

(* LineToOffset of the constructor: 0 and the byte after every newline. *)
NewlineBytes(tokens) == IF Len(tokens) > 2 THEN <<3>> ELSE <<>>
(* Variant of LineToOffset that keeps the byte of the newline itself. *)
LineToOffset_AtNewline(tokens) ==
  <<0>> \o [n \in 1..Len(NewlineBytes(tokens)) |-> NewlineBytes(tokens)[n]]

LineToOffset(tokens) ==
  <<0>> \o [n \in 1..Len(NewlineBytes(tokens)) |-> NewlineBytes(tokens)[n] + 1]

(* Line, column and end column the tokenizer gives token k; lines and      *)
(* columns count from 0.                                                   *)
TokenLine(k) == IF k > 2 THEN 1 ELSE 0
TokenColumn(k) == IF k > 2 THEN 2 * (k - 1) - 4 ELSE 2 * (k - 1)
TokenEndColumn(k) == TokenColumn(k) + 1

getLocationOfByte(byte) == LiteralByteLocs[byte + 1]
GetSourceLocation(tokens, line, column) ==
  getLocationOfByte(LineToOffset(tokens)[line + 1] + column)
GetTokenSourceRange(tokens, k) ==
  [Begin |-> GetSourceLocation(tokens, TokenLine(k), TokenColumn(k)),
   End |-> GetSourceLocation(tokens, TokenLine(k), TokenEndColumn(k))]

(* A parser position: tokens read, whether it failed, the FoundField calls *)
(* made and the errors logged.                                             *)
Parsing(pos, ok, found, log) == [pos |-> pos, ok |-> ok, found |-> found, log |-> log]
Fail(ps, pos, message) == Parsing(pos, FALSE, ps.found, Append(ps.log, message))
Found(ps, pos, AccessorDecl, range) ==
  Parsing(pos, ps.ok, Append(ps.found, [decl |-> AccessorDecl, range |-> range]),
          ps.log)

IsLiteralType(type) == type \in {"INTEGER", "FLOAT", "STRING"}

RECURSIVE ParseMsg(_, _, _, _)
RECURSIVE ParseFieldValue(_, _, _)

(* The literal after ":": the tokenizer's Next is not tested, at the end   *)
(* of input the current token is of TYPE_END.                              *)
ParseOneLiteral(tokens, ps) ==
  IF ps.pos < Len(tokens)
     /\ (IsLiteralType(tokens[ps.pos + 1].type)
         \/ tokens[ps.pos + 1].type = "IDENTIFIER")
  THEN Parsing(ps.pos + 1, TRUE, ps.found, ps.log)
  ELSE Fail(ps, IF ps.pos < Len(tokens) THEN ps.pos + 1 ELSE ps.pos,
            "Expected literal, got "
              \o (IF ps.pos < Len(tokens) THEN tokens[ps.pos + 1].text ELSE ""))

(* case Tokenizer::TYPE_IDENTIFIER of ParseFieldValue: the error is logged *)
(* and the switch left, to the return true after it.                       *)
FieldValueOfIdentifier(ps, Token) ==
  Parsing(ps.pos + 1, TRUE, ps.found,
          Append(ps.log, "Unexpected identifier " \o Token.text))

(* case Tokenizer::TYPE_SYMBOL of ParseFieldValue. *)
FieldValueOfSymbol(tokens, ps, accessor_decl, Token) ==
  IF Token.text = "{"
  THEN IF accessor_decl.returns = NoRecord
       THEN Fail(ps, ps.pos + 1, "Expected msg subfield, got " \o accessor_decl.name)
       ELSE ParseMsg(tokens, Parsing(ps.pos + 1, TRUE, ps.found, ps.log),
                     accessor_decl.returns, TRUE)
  ELSE IF Token.text = ":"
  THEN ParseOneLiteral(tokens, Parsing(ps.pos + 1, TRUE, ps.found, ps.log))
  ELSE Fail(ps, ps.pos + 1, "Expected separator, got " \o Token.text)

ParseFieldValue(tokens, ps, accessor_decl) ==
  IF ps.pos >= Len(tokens) THEN Fail(ps, ps.pos, "Expected field value, got EOF")
  ELSE IF tokens[ps.pos + 1].type = "IDENTIFIER"
  THEN FieldValueOfIdentifier(ps, tokens[ps.pos + 1])
  ELSE IF IsLiteralType(tokens[ps.pos + 1].type)
  THEN Fail(ps, ps.pos + 1, "Expected separator, got " \o tokens[ps.pos + 1].text)
  ELSE FieldValueOfSymbol(tokens, ps, accessor_decl, tokens[ps.pos + 1])

(* After a field's value: `if (!ParseFieldValue(...)) return false; break;` *)
NextField(tokens, value, MsgDecl, nested) ==
  IF value.ok THEN ParseMsg(tokens, value, MsgDecl, nested) ELSE value

(* case Tokenizer::TYPE_IDENTIFIER of ParseMsg, token k being the current. *)
FieldOfIdentifier(tokens, ps, k, MsgDecl, nested, AccessorDecl) ==
  IF AccessorDecl = NoDecl
  THEN Fail(ps, k, "Cannot find field " \o tokens[k].text \o " for message "
                     \o MsgDecl)
  ELSE NextField(tokens,
                 ParseFieldValue(tokens,
                                 Found(ps, k, AccessorDecl,
                                       GetTokenSourceRange(tokens, k)),
                                 AccessorDecl),
                 MsgDecl, nested)

(* Variant of MsgOfSymbol that takes "}" as the end of any message. *)
MsgOfSymbol_AnyLevel(ps, k, nested, Token) ==
  IF Token.text = "}" THEN Parsing(k, TRUE, ps.found, ps.log)
  ELSE Fail(ps, k, "Expected field name or EOM, got " \o Token.text)

(* case Tokenizer::TYPE_SYMBOL of ParseMsg. *)
MsgOfSymbol(ps, k, nested, Token) ==
  IF nested /\ Token.text = "}" THEN Parsing(k, TRUE, ps.found, ps.log)
  ELSE Fail(ps, k, "Expected field name or EOM, got " \o Token.text)

ParseMsg(tokens, ps, MsgDecl, nested) ==
  IF ps.pos >= Len(tokens) THEN Parsing(ps.pos, TRUE, ps.found, ps.log)
  ELSE IF tokens[ps.pos + 1].type = "IDENTIFIER"
  THEN FieldOfIdentifier(tokens, ps, ps.pos + 1, MsgDecl, nested,
                         FindAccessorDeclWithName(MsgDecl, tokens[ps.pos + 1].text))
  ELSE IF IsLiteralType(tokens[ps.pos + 1].type)
  THEN Fail(ps, ps.pos + 1, "Expected field, got literal " \o tokens[ps.pos + 1].text)
  ELSE MsgOfSymbol(ps, ps.pos + 1, nested, tokens[ps.pos + 1])

(* ParseTextProtoHandler::Parse *)
Parse(tokens, MsgDecl) == ParseMsg(tokens, Parsing(0, TRUE, <<>>, <<>>), MsgDecl, FALSE)

(* The node ids the visitor builds for the literal and for an accessor. *)
LiteralId == NodeId(getClaimTokenForLocation("q0"), "literal#e")
BuildNodeIdForDecl(AccessorDecl) ==
  NodeId(default_token_, AccessorDecl.owner \o "::" \o AccessorDecl.name \o "#m")
ExplicitRangeInCurrentContext(range) == PhysicalRange(range.Begin, range.End)

(* The Callback of InspectCallExpr: recordCallEdge of the field's range,   *)
(* the literal and the accessor, for the FoundField calls in order.        *)
RECURSIVE Callbacks(_, _)
Callbacks(st, found) ==
  IF found = <<>> THEN st
  ELSE Callbacks(
         RecordAnchor(
           RecordAnchor(st, ExplicitRangeInCurrentContext(Head(found).range),
                        LiteralId, "childof", "Claimable"),
           ExplicitRangeInCurrentContext(Head(found).range),
           BuildNodeIdForDecl(Head(found).decl), "ref/call", "Unclaimable"),
         Tail(found))

(* What an inspected call leaves behind: result is "skipped" when the     *)
(* call is none of the parser's, else whether Parse returned true.         *)
Inspected(args, result, log, st) ==
  /\ ~fatal
  /\ Called("InspectCallExpr", args, result, st.out, log \o st.log, <<>>)
  /\ deferred_anchors_' = st.anchors
  /\ range_edges_' = st.edges
  /\ fatal' = st.fatal
  /\ UNCHANGED <<file_stack_, written_namespaces_, written_types_, written_docs_,
                 recorded_files_, claim_checked_files_,
                 claimed_file_specific_tokens_,
                 transitively_reached_through_header_, main_source_file_,
                 builtins_, meta_, deferring_nodes_, drop_redundant_wraiths_,
                 starting_context_,
                 FLAGS_fail_on_unimplemented_builtin>>

InspectedParse(args, parsed) ==
  Inspected(args, IF parsed.ok THEN "parsed" ELSE "failed", parsed.log,
            Callbacks(AnchorState, parsed.found))

(* InspectCallExpr for a call that converts a ParseProtoHelper built from  *)
(* a string literal to the message type MsgDecl; for any other call it     *)
(* returns at once.                                                        *)
InspectCallExpr(is_parse_proto, tokens, MsgDecl) ==
  IF is_parse_proto
  THEN InspectedParse(<<is_parse_proto, tokens, MsgDecl>>, Parse(tokens, MsgDecl))
  ELSE Inspected(<<is_parse_proto, tokens, MsgDecl>>, "skipped", <<>>, AnchorState)

(* Literals of up to MaxTokens tokens over the field names of the two      *)
(* messages, an integer and the three symbols of the format, and of up to  *)
(* MaxMixedTokens tokens over those and a float, a string, a field name of *)
(* no message and a symbol of no use.                                      *)
MaxTokens == 5
MaxMixedTokens == 3
CoreTokens ==
  {Tok("IDENTIFIER", "inner"), Tok("IDENTIFIER", "my_int"), Tok("INTEGER", "3"),
   Tok("SYMBOL", ":"), Tok("SYMBOL", "{"), Tok("SYMBOL", "}")}
MixedTokens ==
  CoreTokens \cup {Tok("IDENTIFIER", "my_string"), Tok("IDENTIFIER", "bogus"),
                   Tok("FLOAT", "1.5"), Tok("STRING", "'blah'"),
                   Tok("SYMBOL", ",")}
Literals ==
  UNION {[1..n -> CoreTokens] : n \in 0..MaxTokens}
    \cup UNION {[1..n -> MixedTokens] : n \in 0..MaxMixedTokens}

InspectCalls == {i \in 1..Len(trace) : trace[i].op = "InspectCallExpr"}

(* main.cc is entered and one call expression in it is inspected. *)
NextProto ==
  \/ file_stack_ = <<>> /\ \E answer \in BOOLEAN : pushFile(InvalidLoc, "m3", answer)
  \/ file_stack_ # <<>> /\ InspectCalls = {}
       /\ \E tokens \in Literals : InspectCallExpr(TRUE, tokens, "Outer")
  \/ file_stack_ # <<>> /\ InspectCalls = {}
       /\ InspectCallExpr(FALSE, <<>>, "Outer")

SpecProto == InitWith({FALSE}, {FALSE}, {"c0"}, {FALSE}) /\ [][NextProto]_vars

(* The calls that handed a literal to the parser, and those of them whose  *)
(* literal Parse accepted.                                                 *)
ParseCalls == {i \in InspectCalls : trace[i].args[1]}
ParsedCalls == {i \in ParseCalls : trace[i].ret = "parsed"}

(* The field-name tokens of a literal, read off the token sequence alone:  *)
(* an identifier is a field name unless it stands where a value stands,    *)
(* straight after ":" or straight after a field name. types is the stack   *)
(* of the message types entered by "{", last the accessor of the field     *)
(* name read last, before what the token before k was.                     *)
RECURSIVE FieldNameTokens(_, _, _, _, _)
FieldNameAt(tokens, k, types, accessor) ==
  << [k |-> k, decl |-> accessor] >>
    \o FieldNameTokens(tokens, k + 1, types, accessor, "name")
FieldNameTokens(tokens, k, types, last, before) ==
  IF k > Len(tokens) \/ types = <<>> THEN <<>>
  ELSE IF tokens[k].type = "IDENTIFIER" /\ before \notin {"name", "colon"}
  THEN FieldNameAt(tokens, k, types,
                   FindAccessorDeclWithName(Head(types), tokens[k].text))
  ELSE IF tokens[k] = Tok("SYMBOL", "{")
  THEN FieldNameTokens(tokens, k + 1, <<last.returns>> \o types, last, "other")
  ELSE IF tokens[k] = Tok("SYMBOL", "}")
  THEN FieldNameTokens(tokens, k + 1, Tail(types), last, "other")
  ELSE IF tokens[k] = Tok("SYMBOL", ":")
  THEN FieldNameTokens(tokens, k + 1, types, last, "colon")
  ELSE FieldNameTokens(tokens, k + 1, types, last, "other")

(* Where token k stands in main.cc: the tokens are one byte long and one   *)
(* byte apart, whatever the separating byte.                               *)
TokenRange(k) ==
  PhysicalRange(LiteralByteLocs[2 * (k - 1) + 1], LiteralByteLocs[2 * (k - 1) + 2])

(* The call edge owed to a field-name token. *)
CallEdgeOf(field) ==
  AddEdge(VNameFromRange(TokenRange(field.k)), "ref/call",
          VNameRefFromNodeId(BuildNodeIdForDecl(field.decl)), NoOrdinal)
CallEdgesOwed(fields) == [n \in 1..Len(fields) |-> CallEdgeOf(fields[n])]

IsCallEdge(fact) == fact.f = "edge" /\ fact.kind = "ref/call"
CallEdgesOf(call) == SelectSeq(call.out, IsCallEdge)

(* C26: for a literal that Parse accepts, the call edges recorded are, in  *)
(* order, one per field-name token, each from the token's range to the     *)
(* accessor of that name in the message type being parsed at the token.    *)
C26_CallbackPerFieldName ==
  \A i \in ParsedCalls :
    CallEdgesOf(trace[i])
      = CallEdgesOwed(FieldNameTokens(trace[i].args[2], 1, <<trace[i].args[3]>>,
                                      NoDecl, "other"))

(* A nested field name after the newline was called back in Inner. *)
C26_Witness ==
  \E i \in ParsedCalls :
    /\ Len(trace[i].args[2]) >= 3
    /\ [n \in 1..3 |-> trace[i].args[2][n].text] = <<"inner", "{", "my_int">>
    /\ Len(CallEdgesOf(trace[i])) = 2
    /\ CallEdgesOf(trace[i])[2].dst.signature = "Inner::my_int#m"
C26_WitnessAfterNested ==
  \E i \in ParsedCalls :
    /\ Len(trace[i].args[2]) = 5
    /\ [n \in 1..5 |-> trace[i].args[2][n].text]
         = <<"inner", "{", "}", "inner", "{">>
    /\ Len(CallEdgesOf(trace[i])) = 2

(* What a literal is by the grammar of the format, read off its tokens by  *)
(* a flat scan: expecting says what token k may be ("field" where a field  *)
(* name or the end of a message stands, "value" straight after a field     *)
(* name, "literal" straight after ":"), types is the stack of message      *)
(* types entered, last the accessor of the field name read last, fields    *)
(* the number of field names read. The result names the first token that   *)
(* is out of place and what was expected there.                            *)
Scanned(error, at, fields) == [error |-> error, at |-> at, fields |-> fields]
RECURSIVE Scan(_, _, _, _, _, _)
ScanField(tokens, k, types, last, fields) ==
  IF tokens[k].type = "IDENTIFIER"
  THEN IF FindAccessorDeclWithName(Head(types), tokens[k].text) = NoDecl
       THEN Scanned("field", k, fields)
       ELSE Scan(tokens, k + 1, types,
                 FindAccessorDeclWithName(Head(types), tokens[k].text), "value",
                 fields + 1)
  ELSE IF tokens[k] = Tok("SYMBOL", "}") /\ Len(types) > 1
  THEN Scan(tokens, k + 1, Tail(types), last, "field", fields)
  ELSE Scanned("field", k, fields)
ScanValue(tokens, k, types, last, fields) ==
  IF tokens[k] = Tok("SYMBOL", ":")
  THEN Scan(tokens, k + 1, types, last, "literal", fields)
  ELSE IF tokens[k] = Tok("SYMBOL", "{") /\ last.returns # NoRecord
  THEN Scan(tokens, k + 1, <<last.returns>> \o types, last, "field", fields)
  ELSE Scanned("value", k, fields)
ScanLiteral(tokens, k, types, last, fields) ==
  IF tokens[k].type \in {"INTEGER", "FLOAT", "STRING", "IDENTIFIER"}
  THEN Scan(tokens, k + 1, types, last, "field", fields)
  ELSE Scanned("value", k, fields)
Scan(tokens, k, types, last, expecting, fields) ==
  IF k > Len(tokens)
  THEN Scanned(IF expecting = "field" THEN "none" ELSE "value", k, fields)
  ELSE IF expecting = "field" THEN ScanField(tokens, k, types, last, fields)
  ELSE IF expecting = "value" THEN ScanValue(tokens, k, types, last, fields)
  ELSE ScanLiteral(tokens, k, types, last, fields)
ScanOf(call) == Scan(call.args[2], 1, <<call.args[3]>>, NoDecl, "field", 0)

(* The call edges of a call all start at tokens before token k. *)
EdgesBefore(call, k) ==
  \A n \in 1..Len(CallEdgesOf(call)) :
    \E j \in 1..(k - 1) :
      CallEdgesOf(call)[n].src = VNameFromRange(TokenRange(j))

(* The literals in which a "}" ends a nested message. *)
ClosesNested(tokens) ==
  \E k \in 2..Len(tokens) :
    /\ tokens[k] = Tok("SYMBOL", "}")
    /\ Scan(SubSeq(tokens, 1, k), 1, <<"Outer">>, NoDecl, "field", 0).error = "none"

(* C27: when the first token out of place stands where a field name is     *)
(* expected (a name with no accessor in the current message, a literal, a  *)
(* symbol, "}" at the top level), Parse returns false and the callbacks    *)
(* made are those of the field names before it; a "}" in a nested message  *)
(* is no error, the literal is accepted if nothing else is out of place    *)
(* and the names after it are looked up in the enclosing message.          *)
C27_ParseMsgStops ==
  \A i \in ParseCalls :
    /\ ScanOf(trace[i]).error = "field"
         => /\ trace[i].ret = "failed"
            /\ Len(CallEdgesOf(trace[i])) = ScanOf(trace[i]).fields
            /\ EdgesBefore(trace[i], ScanOf(trace[i]).at)
    /\ ScanOf(trace[i]).error = "none" => trace[i].ret = "parsed"

(* Each kind of error was met after a callback, and a nested "}" passed. *)
C27_Witness ==
  \E i \in ParseCalls :
    /\ ScanOf(trace[i]).error = "field" /\ ScanOf(trace[i]).fields = 1
    /\ ScanOf(trace[i]).at = 4 /\ Len(trace[i].args[2]) = 5
    /\ trace[i].args[2][4] = Tok("SYMBOL", "}")
    /\ trace[i].ret = "failed"
C27_WitnessNoAccessor ==
  \E i \in ParseCalls :
    /\ ScanOf(trace[i]).error = "field" /\ ScanOf(trace[i]).at = 4
    /\ trace[i].args[2][3] = Tok("SYMBOL", "}")
    /\ trace[i].args[2][4] = Tok("IDENTIFIER", "my_int")
    /\ trace[i].ret = "failed"
C27_WitnessNested ==
  \E i \in ParsedCalls :
    /\ ClosesNested(trace[i].args[2]) /\ Len(CallEdgesOf(trace[i])) = 2
    /\ ScanOf(trace[i]).error = "none"

(* C28 as stated: when the first token out of place stands where a field   *)
(* value is expected (after a field name anything but ":" with a literal   *)
(* or "{" with a record to enter, or the end of input), Parse returns      *)
(* false.                                                                  *)
C28_AsStated ==
  \A i \in ParseCalls : ScanOf(trace[i]).error = "value" => trace[i].ret = "failed"

(* A literal with an identifier straight after a field name was parsed. *)
C28_Witness ==
  \E i \in ParseCalls :
    /\ ScanOf(trace[i]).error = "value" /\ ScanOf(trace[i]).at = 2
    /\ Len(trace[i].args[2]) = 2
    /\ trace[i].args[2][2].type = "IDENTIFIER"
    /\ trace[i].ret = "parsed"
    /\ trace[i].log = <<"Unexpected identifier " \o trace[i].args[2][2].text>>

(* What the code does: of the tokens out of place after a field name, the  *)
(* identifier alone does not make Parse fail; it is logged and skipped.    *)
C28_IdentifierSkipped ==
  \A i \in ParseCalls :
    (ScanOf(trace[i]).error = "value" /\ trace[i].ret = "parsed")
      => \E k \in 2..Len(trace[i].args[2]) :
           /\ trace[i].args[2][k].type = "IDENTIFIER"
           /\ trace[i].args[2][k - 1].type = "IDENTIFIER"
           /\ \E n \in 1..Len(trace[i].log) :
                trace[i].log[n] = "Unexpected identifier " \o trace[i].args[2][k].text

-----------------------------------------------------------------------------
(* objc_extractor_bazel: one run of main.  The extra action file is what   *)
(* sits at argv[1]: nothing that open can read, bytes that do not parse,   *)
(* or an ExtraActionInfo whose spawn_info and cpp_compile_info extensions  *)
(* are absent or stand for the arguments FillWithFixedArgs makes of them.  *)

MaxArgc == 7
MaxArgs == 2

NoExtension == <<"<no extension>">>
CompileArgs == {"-c", "-fmodules", "-fmodules-cache-path=m"}
FixedArgs == UNION {[1..n -> CompileArgs] : n \in 0..MaxArgs}
Extensions == FixedArgs \cup {NoExtension}
ExtraActionInfo(spawn_info, cpp_compile_info) ==
  [opens |-> TRUE, parses |-> TRUE, owner |-> "//objc:lib",
   spawn_info |-> spawn_info, cpp_compile_info |-> cpp_compile_info]
NoFile == [ExtraActionInfo(NoExtension, NoExtension) EXCEPT !.opens = FALSE, !.parses = FALSE]
Garbled == [ExtraActionInfo(NoExtension, NoExtension) EXCEPT !.parses = FALSE]
ExtraActionFiles ==
  {NoFile, Garbled} \cup {ExtraActionInfo(s, c) : s \in Extensions, c \in Extensions}

KnownArgv ==
  <<"objc_extractor_bazel", "action.xa", "out.objc.kindex", "vnames.json",
    "get_devdir.sh", "get_sdkroot.sh">>
Argv(argc) == [n \in 1..argc |-> IF n <= Len(KnownArgv) THEN KnownArgv[n] ELSE "extra"]

(* argv[n] of the C program is Argv(argc)[n + 1]. *)
XAState(argv) ==
  [extra_action_file |-> argv[2], output_file |-> argv[3], vname_config |-> argv[4],
   devdir_script |-> argv[5], sdkroot_script |-> argv[6]]

(* Variant of ContainsUnsupportedArg that supports every argument. *)
ContainsUnsupportedArg_Never(args) == FALSE

ContainsUnsupportedArg(args) == \E n \in 1..Len(args) : args[n] = "-fmodules"

NoConfig == [kindex_output_file |-> "", args |-> <<>>, vname_config |-> "",
             target_name |-> "", output_path |-> ""]
Loaded(aborted, success, config, log) ==
  [aborted |-> aborted, success |-> success, config |-> config, log |-> log]
Unsupported(info) ==
  Loaded(FALSE, FALSE, NoConfig,
         <<"Not extracting " \o info.owner \o " because it had an unsupported argument.">>)

LoadSpawnInfo(xa_state, info, args) ==
  IF ContainsUnsupportedArg(args) THEN Unsupported(info)
  ELSE Loaded(FALSE, TRUE,
              [kindex_output_file |-> xa_state.output_file, args |-> args,
               vname_config |-> xa_state.vname_config, target_name |-> info.owner,
               output_path |-> "spawn.o"],
              <<>>)

LoadCppInfo(xa_state, info, args) ==
  IF ContainsUnsupportedArg(args) THEN Unsupported(info)
  ELSE Loaded(FALSE, TRUE,
              [kindex_output_file |-> xa_state.output_file, args |-> args,
               vname_config |-> xa_state.vname_config, target_name |-> info.owner,
               output_path |-> "cpp.o"],
              <<>>)

LoadExtraAction(xa_state, info) ==
  IF ~info.opens
  THEN Loaded(TRUE, FALSE, NoConfig,
              <<"Couldn't open input file " \o xa_state.extra_action_file>>)
  ELSE IF ~info.parses THEN Loaded(TRUE, FALSE, NoConfig, <<"Check failed">>)
  ELSE IF info.spawn_info # NoExtension
  THEN LoadSpawnInfo(xa_state, info, info.spawn_info)
  ELSE IF info.cpp_compile_info # NoExtension
  THEN LoadCppInfo(xa_state, info, info.cpp_compile_info)
  ELSE Loaded(FALSE, FALSE, NoConfig,
              <<"ObjcCompile Extra Action didn't have SpawnInfo or CppCompileInfo.">>)

(* What a run leaves behind: how it ended ("abort" for a failed CHECK),     *)
(* the extraction run or the file written, and what it logged.             *)
Ran(args, status, effects, log) ==
  /\ Called("main", args, status, effects, log, <<>>)
  /\ UNCHANGED <<file_stack_, deferred_anchors_, range_edges_,
                 written_namespaces_, written_types_, written_docs_,
                 recorded_files_, claim_checked_files_,
                 claimed_file_specific_tokens_,
                 transitively_reached_through_header_, main_source_file_,
                 builtins_, meta_, deferring_nodes_, drop_redundant_wraiths_,
                 starting_context_, FLAGS_fail_on_unimplemented_builtin, fatal>>

Extract(config) == [effect |-> "Extract", path |-> config.kindex_output_file, config |-> config]
EmptyFile(path) == [effect |-> "fopen w", path |-> path, config |-> NoConfig]

MainLoaded(args, xa_state, success, writable) ==
  IF success.aborted THEN Ran(args, "abort", <<>>, success.log)
  ELSE IF success.success THEN Ran(args, "exit 0", <<Extract(success.config)>>, success.log)
  ELSE IF writable THEN Ran(args, "exit 0", <<EmptyFile(xa_state.output_file)>>, success.log)
  ELSE Ran(args, "exit 0", <<>>, success.log)

(* main(argc, argv) with info at argv[1]; writable says whether fopen of   *)
(* the output path for writing succeeds.                                   *)
main(argc, info, writable) ==
  IF argc # 6
  THEN Ran(<<argc, info, writable>>, "exit 1", <<>>, <<"Invalid number of arguments">>)
  ELSE MainLoaded(<<argc, info, writable>>, XAState(Argv(argc)),
                  LoadExtraAction(XAState(Argv(argc)), info), writable)

(* The extractor is run once. *)
NextExtractor ==
  /\ trace = <<>>
  /\ \E argc \in 1..MaxArgc, info \in ExtraActionFiles, writable \in BOOLEAN :
       main(argc, info, writable)

SpecExtractor == InitWith({FALSE}, {FALSE}, {"c0"}, {FALSE}) /\ [][NextExtractor]_vars

Runs == {i \in 1..Len(trace) : trace[i].op = "main"}
Extractions(call) == {n \in 1..Len(call.out) : call.out[n].effect = "Extract"}
FilesWritten(call) == {n \in 1..Len(call.out) : call.out[n].effect = "fopen w"}

(* What the run was given: the extension LoadExtraAction goes by, and      *)
(* whether the action can be extracted.                                    *)
ChosenArgs(info) ==
  IF info.spawn_info # NoExtension THEN info.spawn_info ELSE info.cpp_compile_info
CannotExtract(info) ==
  \/ ChosenArgs(info) = NoExtension
  \/ \E n \in 1..Len(ChosenArgs(info)) : ChosenArgs(info)[n] = "-fmodules"

(* C29 as stated: with five arguments the exit status is always 0; if the  *)
(* action cannot be extracted nothing is extracted and the empty output    *)
(* file is written; with any other number the status is 1 and nothing is   *)
(* extracted or written.                                                   *)
C29_AsStated ==
  \A i \in Runs :
    IF trace[i].args[1] = 6
    THEN /\ trace[i].ret = "exit 0"
         /\ (trace[i].args[2].parses /\ CannotExtract(trace[i].args[2]))
              => /\ Extractions(trace[i]) = {}
                 /\ trace[i].out = <<EmptyFile("out.objc.kindex")>>
    ELSE trace[i].ret = "exit 1" /\ trace[i].out = <<>>

(* C29: with five arguments and an extra action file that opens and parses *)
(* the exit status is 0; if the action cannot be extracted nothing is      *)
(* extracted and the output path is opened for writing and closed, which   *)
(* leaves an empty file there when it can be opened; else one extraction   *)
(* is run, of the chosen extension's arguments into the output path, and   *)
(* nothing else is written. A file that does not open or parse aborts the  *)
(* run with nothing extracted or written. Any other number of arguments    *)
(* gives status 1, nothing extracted or written.                           *)
C29_ExtractorRun ==
  \A i \in Runs :
    IF trace[i].args[1] # 6 THEN trace[i].ret = "exit 1" /\ trace[i].out = <<>>
    ELSE IF ~trace[i].args[2].parses
    THEN trace[i].ret = "abort" /\ trace[i].out = <<>>
    ELSE /\ trace[i].ret = "exit 0"
         /\ IF CannotExtract(trace[i].args[2])
            THEN trace[i].out
                   = (IF trace[i].args[3] THEN <<EmptyFile("out.objc.kindex")>>
                      ELSE <<>>)
            ELSE /\ Len(trace[i].out) = 1 /\ Extractions(trace[i]) = {1}
                 /\ trace[i].out[1].path = "out.objc.kindex"
                 /\ trace[i].out[1].config.args = ChosenArgs(trace[i].args[2])

(* An action with -fmodules among its arguments left the empty file. *)
C29_Witness ==
  \E i \in Runs :
    /\ trace[i].args[1] = 6 /\ trace[i].args[2].parses
    /\ trace[i].args[2].spawn_info = <<"-c", "-fmodules">>
    /\ trace[i].ret = "exit 0" /\ FilesWritten(trace[i]) = {1}
C29_WitnessExtracted ==
  \E i \in Runs :
    /\ trace[i].args[1] = 6
    /\ trace[i].args[2].spawn_info = NoExtension
    /\ trace[i].args[2].cpp_compile_info = <<"-fmodules-cache-path=m">>
    /\ trace[i].ret = "exit 0" /\ Extractions(trace[i]) = {1}
C29_WitnessUsage ==
  \E i \in Runs : trace[i].args[1] = 7 /\ trace[i].ret = "exit 1"

-----------------------------------------------------------------------------
(* Files reached through a header. *)

(* Variant of RelatedFileLocation that takes every file for unmarked. *)
RelatedFileLocation_Always(location) == TRUE

(* isMainSourceFileRelatedLocation from `clang::FileID file = ...` on. *)
RelatedFileLocation(location) ==
  IF getFileID(location) = InvalidFileID THEN TRUE
  ELSE IF getFileEntryForID(getFileID(location)) # NoEntry
  THEN getUniqueID(getFileEntryForID(getFileID(location)))
         \notin transitively_reached_through_header_
  ELSE TRUE

RelatedExpansionLocation(location) ==
  IF ~isValid(location) \/ ~isFileID(location) THEN TRUE
  ELSE RelatedFileLocation(location)

RelatedLocation(location) ==
  IF ~isValid(location) THEN TRUE
  ELSE IF ~isFileID(location)
  THEN RelatedExpansionLocation(getExpansionLoc(location))
  ELSE RelatedFileLocation(location)

isMainSourceFileRelatedLocation(location) ==
  /\ ~fatal
  /\ Called("isMainSourceFileRelatedLocation", <<location>>,
            RelatedLocation(location), <<>>, <<>>, <<>>)
  /\ UNCHANGED <<file_stack_, deferred_anchors_, range_edges_,
                 written_namespaces_, written_types_, written_docs_,
                 recorded_files_, claim_checked_files_,
                 claimed_file_specific_tokens_,
                 transitively_reached_through_header_, main_source_file_,
                 builtins_, meta_, deferring_nodes_, drop_redundant_wraiths_,
                 starting_context_, FLAGS_fail_on_unimplemented_builtin, fatal>>

MaxHeaderCalls == 7
HeaderCallsLeft ==
  /\ Len(trace) < MaxHeaderCalls
  /\ IF trace = <<>> THEN TRUE
     ELSE trace[Len(trace)].op # "isMainSourceFileRelatedLocation"

(* Files are entered and left, and at the end one location is asked about. *)
NextHeaders ==
  \/ HeaderCallsLeft
       /\ \E l \in {"m3", "h3", "i1", "bi"} : pushFile(InvalidLoc, l, TRUE)
  \/ HeaderCallsLeft /\ file_stack_ # <<>> /\ popFile
  \/ HeaderCallsLeft
       /\ \E l \in {"inv", "m3", "h3", "g3", "i1", "bi", "X1"} :
            isMainSourceFileRelatedLocation(l)

SpecHeaders == InitWith({FALSE}, {FALSE}, {"c0"}, {FALSE}) /\ [][NextHeaders]_vars

(* The files whose name ends in ".inc", and the file entity behind a file  *)
(* location.                                                               *)
IncFiles == {"b.inc"}
EntityOf(l) == getFileEntryForID(LocTable(l).fid)
TopOfStack == file_stack_[Len(file_stack_)]

(* The mark a push of a file entity owes. *)
MarkOwed(uid) ==
  IF file_stack_ # <<>>
     /\ (TopOfStack.uid \in transitively_reached_through_header_
         \/ uid \notin IncFiles)
  THEN {uid} ELSE {}

MarkStep ==
  IF NewCall.op = "pushFile" /\ EntityOf(NewCall.args[2]) # NoEntry
  THEN transitively_reached_through_header_'
         = transitively_reached_through_header_
             \cup MarkOwed(EntityOf(NewCall.args[2]))
  ELSE transitively_reached_through_header_' = transitively_reached_through_header_

AskedStep ==
  (NewCall.op = "isMainSourceFileRelatedLocation"
   /\ LocTable(NewCall.args[1]).valid /\ ~LocTable(NewCall.args[1]).macro)
    => (NewCall.ret
          <=> EntityOf(NewCall.args[1]) \notin transitively_reached_through_header_)

(* C31: a push of a file entity marks it exactly when a file is on top of  *)
(* the stack and that file is marked or the pushed file is no ".inc" file; *)
(* no other call changes the marks, none removes one, and a file location  *)
(* is related to the main source file exactly when its file is unmarked.   *)
C31_HeaderReachability ==
  [][Len(trace') = Len(trace) + 1 => MarkStep /\ AskedStep]_vars

(* b.inc was marked by a push under the marked a.h, and was then found     *)
(* unrelated.                                                              *)
C31_Witness ==
  /\ Len(trace) = 7
  /\ trace[6].op = "pushFile" /\ trace[6].args[2] = "i1" /\ trace[6].depth = 1
  /\ trace[5].op = "pushFile" /\ trace[5].args[2] = "h3" /\ trace[5].depth = 0
  /\ \A i \in 1..4 : trace[i].op = "pushFile" => trace[i].args[2] # "i1"
  /\ trace[7].op = "isMainSourceFileRelatedLocation" /\ trace[7].args[1] = "i1"
  /\ ~trace[7].ret
C31_WitnessInc ==
  /\ Len(trace) = 3
  /\ trace[1].op = "pushFile" /\ trace[1].args[2] = "m3"
  /\ trace[2].op = "pushFile" /\ trace[2].args[2] = "i1"
  /\ trace[3].op = "isMainSourceFileRelatedLocation" /\ trace[3].args[1] = "i1"
  /\ trace[3].ret
  /\ transitively_reached_through_header_ = {}

-----------------------------------------------------------------------------
(* The signature of an anchor and the text of the identity stream. *)

(* The anchor calls over a located range that passed something on, and the *)
(* offsets "@b:e" of such a range, with the context of a Wraith range.     *)
LocatedCalls == {i \in AnchorCalls : trace[i].args[1].Kind # "Implicit" /\ HasEdge(trace[i])}
OffsetOf(l) == LocTable(getExpansionLoc(l)).offset
OffsetSignature(range) ==
  "@" \o ToString(OffsetOf(range.Begin)) \o ":" \o ToString(OffsetOf(range.End))
    \o (IF range.Kind = "Wraith" THEN "@" \o ToClaimedString(range.Context) ELSE "")

(* C32 as stated: the signature of the anchor of a Range is the compressed *)
(* string the resolver writes to an identity stream for that Range.        *)
C32_AsStated ==
  \A i \in LocatedCalls :
    \A x \in EdgeSources(trace[i]) :
      x.signature = CompressString(AppendRangeToStream(trace[i].args[1]), FALSE)

(* C32: the signature of the anchor of a Physical or Wraith range in a     *)
(* file is the compressed "@begin:end" of the byte offsets, followed for a *)
(* Wraith range by "@" and the context's claimed string; it is not the     *)
(* string AppendRangeToStream writes for the range.                        *)
C32_AnchorSignature ==
  \A i \in LocatedCalls :
    \A x \in EdgeSources(trace[i]) :
      /\ x.signature = CompressString(OffsetSignature(trace[i].args[1]), FALSE)
      /\ x.signature # CompressString(AppendRangeToStream(trace[i].args[1]), FALSE)

(* A Wraith range and a Physical range were anchored. *)
C32_Witness ==
  \E i \in LocatedCalls, j \in LocatedCalls :
    /\ trace[i].args[1].Kind = "Wraith" /\ trace[j].args[1] = HeaderRange
    /\ \E x \in EdgeSources(trace[j]) : x.signature = "@3:3"
    /\ AppendRangeToStream(HeaderRange) = "3k/a.h"

-----------------------------------------------------------------------------
(* File ids in the text of a range. *)

MaxStreamCalls == 2

StreamRanges ==
  {PhysicalRange(b, e) : b \in {"inv", "m3", "h3", "bi", "X1"},
                         e \in {"m3", "h1", "g3", "bi", "X2", "X3"}}
  \cup {WraithRange("X1", "X2", NodeA), WraithRange("h3", "X3", NodeB)}

NextStream ==
  Len(trace) < MaxStreamCalls /\ \E r \in StreamRanges : AppendRangeToStreamCall(r)

SpecStream == InitWith({FALSE}, {FALSE}, {"c0"}, {FALSE}) /\ [][NextStream]_vars

(* The file locations an end of a range is written through, and those of   *)
(* a range, in the order they are written.                                 *)
LocLeaves(loc) ==
  IF isValid(loc) /\ isMacroID(loc)
  THEN <<getExpansionLoc(loc), getSpellingLoc(loc)>> ELSE <<loc>>
RangeLeaves(range) ==
  LocLeaves(range.Begin)
    \o (IF range.End # range.Begin THEN LocLeaves(range.End) ELSE <<>>)

(* Where a file id occurs first among the leaves, and its rank among the   *)
(* distinct file ids in the order they occur first.                        *)
OccursAt(leaves, k, fid) == isValid(leaves[k]) /\ getFileID(leaves[k]) = fid
FirstOccurrence(leaves, fid) ==
  CHOOSE k \in 1..Len(leaves) :
    OccursAt(leaves, k, fid) /\ \A j \in 1..(k - 1) : ~OccursAt(leaves, j, fid)
RankOf(leaves, fid) ==
  Cardinality({getFileID(leaves[j]) :
                 j \in {j \in 1..(FirstOccurrence(leaves, fid) - 1) : isValid(leaves[j])}})

(* What is owed for the k-th leaf: its position, then the identity of its  *)
(* file where the file id occurs first and "@." and the rank elsewhere.    *)
PositionText(loc) ==
  IF getFileEntryForID(getFileID(loc)) # NoEntry
  THEN ToString(getFileOffset(loc)) ELSE AppendFileBufferSliceHashToStream(loc)
IdentityText(loc) ==
  IF getFileEntryForID(getFileID(loc)) # NoEntry
  THEN claimant_corpus \o "/" \o getFileEntryForID(getFileID(loc)) ELSE ""
LeafText(leaves, k) ==
  IF ~isValid(leaves[k]) THEN "invalid"
  ELSE PositionText(leaves[k])
       \o (IF FirstOccurrence(leaves, getFileID(leaves[k])) = k
           THEN IdentityText(leaves[k])
           ELSE "@." \o ToString(RankOf(leaves, getFileID(leaves[k]))))
EndText(leaves, base, loc) ==
  IF Len(LocLeaves(loc)) = 2
  THEN LeafText(leaves, base + 1) \o "@" \o LeafText(leaves, base + 2)
  ELSE LeafText(leaves, base + 1)
RangeText(range) ==
  EndText(RangeLeaves(range), 0, range.Begin)
    \o (IF range.End # range.Begin
        THEN EndText(RangeLeaves(range), Len(LocLeaves(range.Begin)), range.End)
        ELSE "")
    \o (IF range.Kind = "Wraith" THEN ToClaimedString(range.Context) ELSE "")

(* C33: in the text of one Range the identity of a file id is written only *)
(* where the file id occurs first; every later occurrence writes "@." and  *)
(* the zero-based rank of the file id among the distinct file ids in the   *)
(* order they occur first; nothing is carried from one Range to the next.  *)
C33_BackReferences ==
  \A i \in 1..Len(trace) :
    trace[i].op = "AppendRangeToStream" => trace[i].ret = RangeText(trace[i].args[1])

(* Two ranges through the same expansions were written one after the other. *)
C33_Witness ==
  /\ Len(trace) = 2
  /\ trace[1].args[1] = PhysicalRange("X1", "X2")
  /\ trace[1].ret = "3k/main.cc@3k/a.h3@.0@3@.1"
  /\ trace[2].args[1] = PhysicalRange("h3", "X3")
  /\ trace[2].ret = "3k/a.h7k/main.cc@3@.0"

-----------------------------------------------------------------------------
(* Implicit ranges. *)

(* The anchor calls over an Implicit range that were not stopped, and the  *)
(* name owed to the anchor of the node an Implicit range stands for.       *)
ImplicitCalls ==
  {i \in AnchorCalls : trace[i].args[1].Kind = "Implicit" /\ trace[i].ret}
SyntacticName(node) ==
  VName(CompressString(node.identity \o "@syntactic", FALSE),
        node.token.vname.corpus, node.token.vname.root, node.token.vname.path,
        kIndexerLang)

(* C34: the anchor of an Implicit range is named after its node alone, the *)
(* node's name with "@syntactic" appended to the signature and compressed, *)
(* whatever file is being processed; what is emitted for it is the anchor  *)
(* kind, the subkind "implicit" and the anchor's edge, with no offsets.    *)
C34_ImplicitAnchor ==
  \A i \in ImplicitCalls :
    \A a \in AnchorsOf(trace[i]) :
      trace[i].out =
        << AddNodeKind(SyntacticName(trace[i].args[1].Context), "anchor"),
           AddProperty(SyntacticName(trace[i].args[1].Context),
                       "/kythe/subkind", "implicit"),
           AddEdge(SyntacticName(trace[i].args[1].Context), a.edge_kind, a.target,
                   NoOrdinal) >>

(* The anchor of an Implicit range was emitted while a file that is not    *)
(* claimed was being processed.                                            *)
C34_Witness ==
  \E i \in ImplicitCalls :
    /\ Len(trace[i].out) = 3
    /\ trace[i].out[1].src.signature = "A#n@syntactic"
    /\ ~claimLocation("m3")

-----------------------------------------------------------------------------
(* Type applications with default parameters. *)

NextTapp ==
  \/ CallsLeft /\ \E ps \in {<<>>, <<NodeA>>, <<NodeA, NodeB>>}, first \in {0, 1, 2, 3} :
                    recordTappNode(TypeC, ps, first)
  \/ CallsLeft /\ Delimit
  \/ CallsLeft /\ Undelimit

SpecTapp == InitWith(BOOLEAN, {FALSE}, {""}, {FALSE}) /\ [][NextTapp]_vars

TappCalls == {i \in 1..Len(trace) : trace[i].op = "recordTappNode"}
EdgesOf(call) == SelectSeq(call.out, LAMBDA fact : fact.f = "edge")
DefaultsOf(call) ==
  SelectSeq(call.out, LAMBDA fact : fact.f = "property" /\ fact.kind = "/kythe/param/default")

(* The edges owed by a type application: the constructor at ordinal 0 and  *)
(* the i-th parameter at ordinal i.                                        *)
TappEdgesOwed(tapp_vname, tycon_id, params) ==
  [k \in 1..(Len(params) + 1) |->
     IF k = 1 THEN AddEdge(tapp_vname, "param", VNameRefFromNodeId(tycon_id), 0)
     ELSE AddEdge(tapp_vname, "param", VNameRefFromNodeId(params[k - 1]), k - 1)]

(* C35: a recordTappNode that emits passes one param edge to the           *)
(* constructor at ordinal 0 and one to params[i] at ordinal i + 1, in that *)
(* order, and the param-default property exactly when FirstDefaultParam is *)
(* less than the number of parameters; a FirstDefaultParam greater than    *)
(* the number of parameters stops the run before anything is emitted.      *)
C35_TappParams ==
  \A i \in TappCalls :
    IF trace[i].args[3] > Len(trace[i].args[2])
    THEN trace[i].out = <<>> /\ trace[i].ret = NoNode
         /\ \A j \in 1..Len(trace) : j <= i
    ELSE /\ trace[i].ret # NoNode
         /\ trace[i].out # <<>> =>
              /\ EdgesOf(trace[i]) =
                   TappEdgesOwed(VNameRefFromNodeId(trace[i].ret), trace[i].args[1],
                                 trace[i].args[2])
              /\ DefaultsOf(trace[i]) =
                   IF trace[i].args[3] < Len(trace[i].args[2])
                   THEN << AddProperty(VNameRefFromNodeId(trace[i].ret),
                                       "/kythe/param/default",
                                       ToString(trace[i].args[3])) >>
                   ELSE <<>>

(* A type application of two parameters, the second defaulted, was         *)
(* emitted; then one whose first default lies past its only parameter.     *)
C35_Witness ==
  /\ Len(trace) = 2
  /\ trace[1].op = "recordTappNode" /\ trace[1].args[2] = <<NodeA, NodeB>>
  /\ trace[1].args[3] = 1 /\ Len(trace[1].out) = 5
  /\ trace[2].op = "recordTappNode" /\ trace[2].args[2] = <<NodeA>>
  /\ trace[2].args[3] = 2 /\ fatal

-----------------------------------------------------------------------------
(* Edges of anchors that are never written. *)

NextCallEdges ==
  \/ CallsLeft /\ \E answer \in BOOLEAN : pushFile(InvalidLoc, "m3", answer)
  \/ CallsLeft /\ \E caller \in TargetNodes, callee \in TargetNodes :
                    recordCallEdge(MainRange, caller, callee)
  \/ CallsLeft /\ \E n \in TargetNodes : recordCompletionRange(MainRange, n, "Completes")
  \/ CallsLeft /\ \E r \in {MainRange} \cup WraithRanges, n \in TargetNodes,
                      cl \in {"Claimable", "Unclaimable"} :
                    recordTypeSpellingLocation(r, n, cl)
  \/ CallsLeft /\ recordIncludesRange(PhysicalRange("m3", "m3"), "a.h")

SpecCallEdges == InitWith({FALSE}, BOOLEAN, {"c0"}, {FALSE}) /\ [][NextCallEdges]_vars

(* Some call so far passed on the node facts of the anchor a. *)
AnchorNodeWritten(a) == \E i \in 1..Len(trace) : Emitted(trace[i], AnchorNode(a))

(* C36: while redundant anchors are not dropped, an anchor recorded as     *)
(* Unclaimable (the ref/call edge of recordCallEdge, a completion range, a *)
(* use or type spelling passed Unclaimable) has its edge emitted whatever  *)
(* is claimed; the childof edge of recordCallEdge is emitted exactly when  *)
(* the range or the caller is claimed; and the node facts of an anchor are *)
(* emitted by a call only if the range or a target of the call is claimed. *)
C36_UnclaimableEdges ==
  (AnchorCallReturned /\ ~drop_redundant_wraiths_) =>
    \A a \in AnchorsOf(trace[Len(trace)]) :
      /\ a.cl = "Unclaimable" => Emitted(trace[Len(trace)], AnchorEdge(a))
      /\ (trace[Len(trace)].op = "recordCallEdge" /\ a.edge_kind = "childof") =>
           (Emitted(trace[Len(trace)], AnchorEdge(a)) <=> RangeOrTargetClaimed(a))
      /\ (\A b \in AnchorsOf(trace[Len(trace)]) : ~RangeOrTargetClaimed(b)) =>
           ~Emitted(trace[Len(trace)], AnchorNode(a))

(* A call edge over an unclaimed range between unclaimed nodes: the        *)
(* ref/call edge alone was emitted, for an anchor no call has written.     *)
C36_Witness ==
  /\ AnchorCallReturned /\ ~drop_redundant_wraiths_
  /\ trace[Len(trace)].op = "recordCallEdge"
  /\ Len(trace[Len(trace)].out) = 1
  /\ \E a \in AnchorsOf(trace[Len(trace)]) :
       /\ a.edge_kind = "ref/call"
       /\ trace[Len(trace)].out[1] = AnchorEdge(a)
       /\ ~RangeOrTargetClaimed(a)
       /\ ~AnchorNodeWritten(a)

-----------------------------------------------------------------------------
(* Redundant anchors. *)

(* Two anchors with the same physical range, edge kind and target. *)
SameRangeEdge(a, b) ==
  SameBounds(a.range, b.range) /\ a.edge_kind = b.edge_kind /\ a.target = b.target

(* The anchors of call j to a node that an earlier call asked for. *)
AskedBefore(j) ==
  {b \in AnchorsOf(trace[j]) :
     \E i \in AnchorCalls :
       /\ i < j /\ trace[i].op # "recordIncludesRange"
       /\ \E a \in AnchorsOf(trace[i]) : SameRangeEdge(a, b)}

C37_WitnessIncludes ==
  /\ drop_redundant_wraiths_ /\ Len(trace) = 3
  /\ trace[2].op = "recordIncludesRange" /\ trace[2].out # <<>>
  /\ trace[3] = [trace[2] EXCEPT !.edges = trace[3].edges, !.anchors = trace[3].anchors]

-----------------------------------------------------------------------------
(* Nodes recorded outside and inside deferred-nodes mode. *)

MaxModeCalls == 4
ModeCallsLeft == Len(trace) < MaxModeCalls

NextModes ==
  \/ ModeCallsLeft /\ pushFile(InvalidLoc, "m3", TRUE)
  \/ ModeCallsLeft /\ recordNominalTypeNode("C#c", "C", NoNode, "forward")
  \/ ModeCallsLeft /\ recordTappNode(TypeC, <<NodeA>>, 1)
  \/ ModeCallsLeft /\ recordTsigmaNode(<<NodeA>>)
  \/ ModeCallsLeft /\ recordTypeAliasNode("T#c", TypeC, NoNode, NoMarkedSource)
  \/ ModeCallsLeft /\ recordDeclUseLocation(MainRange, NodeA, "Claimable")
  \/ ModeCallsLeft /\ recordNamespaceNode(NodeA, NoMarkedSource)
  \/ ModeCallsLeft /\ recordDocumentationText(NodeA, "text", <<>>)
  \/ ModeCallsLeft /\ Delimit
  \/ ModeCallsLeft /\ Undelimit

SpecModes == InitWith(BOOLEAN, {FALSE}, {"c0"}, {FALSE}) /\ [][NextModes]_vars

(* A call of a type operation: outside the mode it emits and leaves the    *)
(* set of written types alone; inside it emits exactly when the type is    *)
(* not in the set, and puts it there.                                      *)
TypeStep ==
  NewCall.op \in TypeOps =>
    IF ~deferring_nodes_
    THEN NewCall.out # <<>> /\ written_types_' = written_types_
    ELSE /\ NewCall.out # <<>> <=> ToClaimedString(NewCall.ret) \notin written_types_
         /\ written_types_' = written_types_ \cup {ToClaimedString(NewCall.ret)}

(* The same for the node facts of a claimed anchor and the unit's ranges.  *)
AnchorStep ==
  (NewCall.op \in AnchorOps /\ NewCall.ret) =>
    \A a \in AnchorsOf(NewCall) :
      RangeOrTargetClaimed(a) =>
        IF ~deferring_nodes_
        THEN Emitted(NewCall, AnchorNode(a)) /\ deferred_anchors_' = deferred_anchors_
        ELSE /\ Emitted(NewCall, AnchorNode(a)) <=> a.range \notin deferred_anchors_
             /\ deferred_anchors_' = deferred_anchors_ \cup {a.range}

(* A namespace and a documentation node are written once in either mode.   *)
NamespaceStep ==
  NewCall.op = "recordNamespaceNode" =>
    /\ NewCall.out # <<>> <=> ToClaimedString(NewCall.args[1]) \notin written_namespaces_
    /\ written_namespaces_' =
         written_namespaces_ \cup {ToClaimedString(NewCall.args[1])}
DocStep ==
  NewCall.op = "recordDocumentationText" =>
    /\ Emitted(NewCall, AddNodeKind(VNameRefFromNodeId(
                  DocId(NewCall.args[1], NewCall.args[2], NewCall.args[3])), "doc"))
         <=> ToClaimedString(DocId(NewCall.args[1], NewCall.args[2], NewCall.args[3]))
               \notin written_docs_
    /\ written_docs_' =
         written_docs_ \cup {ToClaimedString(DocId(NewCall.args[1], NewCall.args[2],
                                                   NewCall.args[3]))}

(* C38: outside deferred-nodes mode recordNominalTypeNode, recordTappNode, *)
(* recordTsigmaNode, recordTypeAliasNode and the anchor-node emission of a *)
(* claimed anchor emit on every call and add nothing to the sets of        *)
(* written types and ranges, so that the first call inside the mode emits  *)
(* the node once more; recordNamespaceNode and recordDocumentationText     *)
(* emit their node once in either mode.                                    *)
C38_InactiveModeEmits ==
  [][Len(trace') = Len(trace) + 1 =>
       TypeStep /\ AnchorStep /\ NamespaceStep /\ DocStep]_vars

(* A type recorded outside the mode was emitted, emitted once more by the  *)
(* first call inside the mode and not by the second.                       *)
C38_Witness ==
  /\ Len(trace) = 4
  /\ trace[1].op = "recordNominalTypeNode" /\ ~trace[1].deferring
  /\ trace[1].out # <<>>
  /\ trace[2].op = "Delimit"
  /\ trace[3].op = "recordNominalTypeNode" /\ trace[3].out = trace[1].out
  /\ trace[4].op = "recordNominalTypeNode" /\ trace[4].out = <<>>

(* The same for an anchor of main.cc. *)
C38_WitnessAnchor ==
  /\ Len(trace) = 4
  /\ trace[2].op = "recordDeclUseLocation" /\ ~trace[2].deferring
  /\ trace[3].op = "Delimit"
  /\ trace[4].op = "recordDeclUseLocation" /\ trace[4].out = trace[2].out
  /\ Len(trace[4].out) > 1

(* A namespace and a documentation text recorded twice outside the mode    *)
(* were written once.                                                      *)
C38_WitnessOnce ==
  /\ Len(trace) = 4 /\ ~deferring_nodes_
  /\ trace[1].op = "recordNamespaceNode" /\ trace[1].out # <<>>
  /\ trace[2].op = "recordNamespaceNode" /\ trace[2].out = <<>>
  /\ trace[3].op = "recordDocumentationText" /\ Len(trace[3].out) = 3
  /\ trace[4].op = "recordDocumentationText" /\ Len(trace[4].out) = 1

-----------------------------------------------------------------------------
(* Claims of locations and ranges, asked by the walker. *)

claimLocationCall(source_location) ==
  /\ ~fatal
  /\ Called("claimLocation", <<source_location>>, claimLocation(source_location),
            <<>>, <<>>, <<>>)
  /\ UNCHANGED <<file_stack_, deferred_anchors_, range_edges_,
                 written_namespaces_, written_types_, written_docs_,
                 recorded_files_, claim_checked_files_,
                 claimed_file_specific_tokens_,
                 transitively_reached_through_header_, main_source_file_,
                 builtins_, meta_, deferring_nodes_, drop_redundant_wraiths_,
                 starting_context_,
                 FLAGS_fail_on_unimplemented_builtin, fatal>>

claimRangeCall(range) ==
  /\ ~fatal
  /\ Called("claimRange", <<range>>, claimRange(range), <<>>, <<>>, <<>>)
  /\ UNCHANGED <<file_stack_, deferred_anchors_, range_edges_,
                 written_namespaces_, written_types_, written_docs_,
                 recorded_files_, claim_checked_files_,
                 claimed_file_specific_tokens_,
                 transitively_reached_through_header_, main_source_file_,
                 builtins_, meta_, deferring_nodes_, drop_redundant_wraiths_,
                 starting_context_,
                 FLAGS_fail_on_unimplemented_builtin, fatal>>

MaxQueryCalls == 4
QueryCallsLeft ==
  /\ Len(trace) < MaxQueryCalls
  /\ IF trace = <<>> THEN TRUE
     ELSE trace[Len(trace)].op \notin {"claimLocation", "claimRange"}

QueriedLocs == {"inv", "z0", "m3", "h3", "g3", "bi", "X3"}
QueriedRanges ==
  {MainRange, HeaderRange, PhysicalRange(InvalidLoc, InvalidLoc)}
  \cup {WraithRange("h3", "h3", n) : n \in TargetNodes}

NextQueries ==
  \/ QueryCallsLeft /\ \E answer \in BOOLEAN : pushFile(InvalidLoc, "m3", answer)
  \/ QueryCallsLeft /\ \E answer \in BOOLEAN : pushFile("m3", "h3", answer)
  \/ QueryCallsLeft /\ pushFile("m3", "bi", TRUE)
  \/ QueryCallsLeft /\ popFile
  \/ QueryCallsLeft /\ \E l \in QueriedLocs : claimLocationCall(l)
  \/ QueryCallsLeft /\ \E r \in QueriedRanges : claimRangeCall(r)

SpecQueries == InitWith({FALSE}, {FALSE}, {"c0"}, {FALSE}) /\ [][NextQueries]_vars

(* The calls before call i that pushed the file of a location with a file  *)
(* entity, and the answer the first of them got.                           *)
FileOfLoc(l) == getFileID(ExpansionLocIfMacro(l))
PushesBefore(i, file) ==
  {k \in 1..(i - 1) : /\ trace[k].op = "pushFile"
                      /\ ResolvesFile(trace[k].args[2])
                      /\ FileOfLoc(trace[k].args[2]) = file}
FirstAnswer(pushes) ==
  trace[CHOOSE k \in pushes : \A m \in pushes : k <= m].ret.claimed
ClaimOwed(i, l) ==
  IF ~isValid(l) THEN TRUE
  ELSE IF FileOfLoc(l) = InvalidFileID THEN TRUE
  ELSE IF PushesBefore(i, FileOfLoc(l)) = {} THEN FALSE
  ELSE FirstAnswer(PushesBefore(i, FileOfLoc(l)))

(* C39: claimLocation answers true for an invalid location and for a       *)
(* location without a file id, the answer the first push of the file got   *)
(* for a file id pushed with a file entity, and false for a file id never  *)
(* pushed or pushed without a file entity; claimRange answers true also    *)
(* for a Wraith range whose context is claimed, whatever its file.         *)
C39_ClaimAnswers ==
  \A i \in 1..Len(trace) :
    /\ trace[i].op = "claimLocation" => trace[i].ret = ClaimOwed(i, trace[i].args[1])
    /\ trace[i].op = "claimRange" =>
         trace[i].ret = ((trace[i].args[1].Kind = "Wraith"
                          /\ claimNode(trace[i].args[1].Context))
                         \/ ClaimOwed(i, trace[i].args[1].Begin))

(* main.cc was pushed claimed, the builtin buffer pushed under it and     *)
(* popped, and the walker asked about the buffer: not claimed.             *)
C39_Witness ==
  /\ Len(trace) = 4
  /\ trace[1].op = "pushFile" /\ trace[1].ret.claimed
  /\ trace[2].op = "pushFile" /\ trace[2].args[2] = "bi"
  /\ trace[3].op = "popFile"
  /\ trace[4].op = "claimLocation" /\ trace[4].args[1] = "bi" /\ ~trace[4].ret

(* A Wraith range in an unclaimed header under a claimed context. *)
C39_WitnessWraith ==
  /\ Len(trace) = 3
  /\ trace[2].op = "pushFile" /\ trace[2].args[2] = "h3" /\ ~trace[2].ret.claimed
  /\ trace[3].op = "claimRange" /\ trace[3].args[1].Kind = "Wraith"
  /\ trace[3].ret /\ ~claimLocation("h3")

(* A valid location in no file, and a file asked about after a second push *)
(* whose answer differed from the first.                                   *)
C39_WitnessNoFile ==
  /\ trace # <<>>
  /\ trace[Len(trace)].op = "claimLocation" /\ trace[Len(trace)].args[1] = "z0"
  /\ trace[Len(trace)].ret
C39_WitnessCached ==
  /\ Len(trace) = 4
  /\ trace[1].op = "pushFile" /\ trace[1].ret.claimed
  /\ trace[3].op = "pushFile" /\ trace[3].args = trace[1].args /\ ~trace[3].ret.claimed
  /\ trace[4].op = "claimLocation" /\ trace[4].args[1] = "m3" /\ trace[4].ret

-----------------------------------------------------------------------------
(* The recursion of SearchForFileEntry and AppendFullLocationToStream,     *)
(* one step at a time.  A run is the stack of the activations that have    *)
(* not returned, each a location and the place it has got to, with the     *)
(* value returned last and the stream written so far.                      *)

Frame(loc, pc) == [loc |-> loc, pc |-> pc]
Run(stack, out, stream) == [stack |-> stack, out |-> out, stream |-> stream]
TopFrame(run) == run.stack[Len(run.stack)]
Returned(run) == [run EXCEPT !.stack = SubSeq(@, 1, Len(@) - 1)]
MovedTo(run, pc) == [run EXCEPT !.stack[Len(run.stack)].pc = pc]
Entered(run, pc, loc) == [MovedTo(run, pc) EXCEPT !.stack = Append(@, Frame(loc, "entry"))]

(* Variant of SearchThroughAt that looks through the spelling first. *)
SearchThroughAt_SpellingFirst(loc, pc) ==
  IF pc = "expansion" THEN getSpellingLoc(loc) ELSE getExpansionLoc(loc)

(* The location the search goes through next. *)
SearchThroughAt(loc, pc) ==
  IF pc = "expansion" THEN getExpansionLoc(loc) ELSE getSpellingLoc(loc)

(* if (through.isValid() && through != loc) *)
Recurses(loc, through) == isValid(through) /\ through # loc

(* One step of the activation on top of a search. *)
SearchFrameStep(run, loc, pc) ==
  CASE pc = "entry" ->
         IF isFileID(loc) /\ isValid(loc) /\ getFileEntryForID(getFileID(loc)) # NoEntry
         THEN Returned([run EXCEPT !.out = getFileEntryForID(getFileID(loc))])
         ELSE MovedTo([run EXCEPT !.out = NoEntry], "expansion")
    [] pc = "expansion" ->
         IF Recurses(loc, SearchThroughAt(loc, "expansion"))
         THEN Entered(run, "after expansion", SearchThroughAt(loc, "expansion"))
         ELSE MovedTo(run, "spelling")
    [] pc = "after expansion" ->
         IF run.out # NoEntry THEN Returned(run) ELSE MovedTo(run, "spelling")
    [] pc = "spelling" ->
         IF Recurses(loc, SearchThroughAt(loc, "spelling"))
         THEN Entered(run, "after spelling", SearchThroughAt(loc, "spelling"))
         ELSE Returned(run)
    [] OTHER -> Returned(run)

(* One step of the activation on top of a write of a location. *)
AppendFrameStep(run, loc, pc) ==
  CASE pc = "entry" ->
         IF ~isValid(loc)
         THEN Returned([run EXCEPT !.stream = Write(@, "invalid")])
         ELSE IF isFileID(loc)
         THEN Returned([run EXCEPT !.stream =
                AppendFileLocationToStream(@, loc, getFileID(loc),
                                           getFileEntryForID(getFileID(loc)),
                                           PostedIndex(@.posted, getFileID(loc)))])
         ELSE Entered(run, "after expansion", getExpansionLoc(loc))
    [] pc = "after expansion" ->
         Entered([run EXCEPT !.stream = Write(@, "@")], "after spelling",
                 getSpellingLoc(loc))
    [] OTHER -> Returned(run)

(* The effect of a step of a run: only the run moves. *)
RunCall(op, loc, run) ==
  /\ ~fatal
  /\ Called(op, <<loc>>, run, <<>>, <<>>, <<>>)
  /\ UNCHANGED <<file_stack_, deferred_anchors_, range_edges_,
                 written_namespaces_, written_types_, written_docs_,
                 recorded_files_, claim_checked_files_,
                 claimed_file_specific_tokens_,
                 transitively_reached_through_header_, main_source_file_,
                 builtins_, meta_, deferring_nodes_, drop_redundant_wraiths_,
                 starting_context_,
                 FLAGS_fail_on_unimplemented_builtin, fatal>>

NewRun(loc) == Run(<<Frame(loc, "entry")>>, NoEntry, EmptyStream)
LastRun == trace[Len(trace)].ret
Running(op) ==
  /\ trace # <<>>
  /\ trace[Len(trace)].op = op
  /\ LastRun.stack # <<>>

SearchForFileEntryStep ==
  /\ Running("SearchForFileEntry")
  /\ RunCall("SearchForFileEntry", trace[1].args[1],
             SearchFrameStep(LastRun, TopFrame(LastRun).loc, TopFrame(LastRun).pc))

AppendFullLocationToStreamStep ==
  /\ Running("AppendFullLocationToStream")
  /\ RunCall("AppendFullLocationToStream", trace[1].args[1],
             AppendFrameStep(LastRun, TopFrame(LastRun).loc, TopFrame(LastRun).pc))

SearchedLocs == Locs \cup LiteralLocs \cup {"z0", "S1", "B1", "B2"}

NextSearch ==
  \/ trace = <<>> /\ \E loc \in SearchedLocs :
                       RunCall("SearchForFileEntry", loc, NewRun(loc))
  \/ trace = <<>> /\ \E loc \in SearchedLocs :
                       RunCall("AppendFullLocationToStream", loc, NewRun(loc))
  \/ SearchForFileEntryStep
  \/ AppendFullLocationToStreamStep

(* A run that has started goes on until its last activation returns. *)
SpecSearch ==
  /\ InitWith({FALSE}, {FALSE}, {"c0"}, {FALSE})
  /\ [][NextSearch]_vars
  /\ WF_vars(NextSearch)

(* The file entity right at a location, and the first one among the        *)
(* location, its expansion and its spelling.                               *)
EntityAt(loc) ==
  IF isValid(loc) /\ isFileID(loc) THEN getFileEntryForID(getFileID(loc)) ELSE NoEntry
FirstEntity(loc) ==
  IF EntityAt(loc) # NoEntry THEN EntityAt(loc)
  ELSE IF Recurses(loc, getExpansionLoc(loc)) /\ EntityAt(getExpansionLoc(loc)) # NoEntry
  THEN EntityAt(getExpansionLoc(loc))
  ELSE IF Recurses(loc, getSpellingLoc(loc)) THEN EntityAt(getSpellingLoc(loc))
  ELSE NoEntry

RunEnded == trace # <<>> /\ LastRun.stack = <<>>

(* Every activation under another is of a valid location other than the    *)
(* one above it; a search that has ended returns the first entity, the     *)
(* expansion before the spelling, or none; a write that has ended has      *)
(* written the text of the location.                                       *)
RunIsSound ==
  /\ \A i \in 1..Len(trace) :
       trace[i].op = "SearchForFileEntry" =>
         \A k \in 2..Len(trace[i].ret.stack) :
           /\ isValid(trace[i].ret.stack[k].loc)
           /\ trace[i].ret.stack[k].loc # trace[i].ret.stack[k - 1].loc
  /\ (RunEnded /\ trace[1].op = "SearchForFileEntry") =>
       /\ LastRun.out = FirstEntity(trace[1].args[1])
       /\ LastRun.out = SearchForFileEntry(trace[1].args[1])
  /\ (RunEnded /\ trace[1].op = "AppendFullLocationToStream") =>
       LastRun.stream = AppendFullLocationToStream(EmptyStream, trace[1].args[1])

(* C40: over acyclic expansion and spelling chains every run of            *)
(* SearchForFileEntry and of AppendFullLocationToStream ends, with no      *)
(* bound on the depth of the recursion; SearchForFileEntry recurses only   *)
(* into an expansion or spelling location that is valid and differs from   *)
(* the current one and returns the first file entity found, searching the  *)
(* expansion before the spelling, or none.                                 *)
C40_SearchTerminates == []RunIsSound /\ <>RunEnded

(* A search from a location expanded in a buffer without a file entity and *)
(* spelled in a.h went through both and ended with a.h.                    *)
C40_Witness ==
  /\ RunEnded
  /\ trace[1].op = "SearchForFileEntry" /\ trace[1].args[1] = "B1"
  /\ LastRun.out = "a.h"
  /\ \E i \in 1..Len(trace) : Len(trace[i].ret.stack) = 2
                              /\ trace[i].ret.stack[2].loc = "bi"
  /\ \E i \in 1..Len(trace) : Len(trace[i].ret.stack) = 2
                              /\ trace[i].ret.stack[2].loc = "h3"

(* A search that found nothing, one that stopped at the expansion, and a   *)
(* write through an expansion and a spelling.                              *)
C40_WitnessNone ==
  RunEnded /\ trace[1].op = "SearchForFileEntry" /\ trace[1].args[1] = "B2"
  /\ LastRun.out = NoEntry
C40_WitnessExpansion ==
  RunEnded /\ trace[1].op = "SearchForFileEntry" /\ trace[1].args[1] = "X3"
  /\ LastRun.out = "main.cc"
C40_WitnessWritten ==
  RunEnded /\ trace[1].op = "AppendFullLocationToStream" /\ trace[1].args[1] = "X1"
  /\ LastRun.stream.str = "3k/main.cc@3k/a.h"
====
